---- MODULE Spec2Model ----
(***************************************************************************)
(* DinoRun simulation core: Player kinematics and collision regions,       *)
(* ObstacleManager spawning and culling, CollisionManager tests and the    *)
(* Game driver's per-frame update.                                         *)
(*                                                                         *)
(* Arithmetic.  The program computes in double / float.  The model uses    *)
(* fixed point: lengths in 1/1000 pixel, times in milliseconds, speeds in  *)
(* 1/1000 pixel per second, ratios in 1/1000.  A product of two scaled     *)
(* quantities is divided by 1000 (integer division); with the frame times  *)
(* used here (multiples of 100 ms) the kinematic products are exact.       *)
(***************************************************************************)
EXTENDS Integers, Sequences, FiniteSets, TLC

VARIABLES
    player,          \* Game::player (the Player object's fields)
    obstacleManager, \* Game::obstacleManager (the ObstacleManager's fields)
    currentState,    \* Game::currentState
    previousState,   \* Game::previousState
    gameTime,        \* Game::gameTime
    currentScore,    \* Game::currentScore
    highScore,       \* Game::highScore
    lastOp,          \* history: name of the operation that produced this state
    lastDt,          \* history: the dt of that operation (0 when it has none)
    prev,            \* history: the Player object before that operation
    probe            \* one call of a function of the program: its name,
                     \* its arguments and, once it has run, its result

vars == <<player, obstacleManager, currentState, previousState, gameTime,
          currentScore, highScore, lastOp, lastDt, prev, probe>>

gameVars == <<obstacleManager, currentState, previousState, gameTime,
              currentScore, highScore>>

\* ------------------------------------------------------------------ bounds

\* Frame times (ms) the player-only specification draws from.
PlayerDts == {0, 100, 300, 500}

\* Frame times (ms) the game specification draws from.
FrameDts == {500}

\* The game specification stops advancing gameTime here (ms).
MaxGameTime == 5500

\* uniformDist draws in [0, 1), in 1/1000
UniformDraws == {0, 600}

\* generateRandomOffset(-15.0, 15.0) draws, in 1/1000 pixel
JitterDraws == {-15000, 0}

\* generateRandomOffset(-0.1, 0.1) draws, in ms
TimerJitterDraws == {0}
\* Elapsed times, frame times and timer jitters of the single update calls
UpdateTimes == {0, 1000, 19500, 40000}
UpdateDts == {-500, 0, 16, 500, 1200}
UpdateTimerJitters == {-100, 0, 99}
\* Elapsed times of the single getPatternWeight calls
WeightTimes == {0, 10000, 16000, 21000, 26000}

\* Positions, sizes and outline thicknesses (1/1000 pixel) of the rectangle
\* shapes the collision specification draws from: overlapping, touching
\* along an edge or at a corner, apart, and of zero width or height.
RectXs == {0, 4000, 6000, 9000}

RectYs == {0, 6000}

RectSizes == {0, 6000}

OutlineDraws == {0, 2000}

\* Frame times (ms) the obstacle manager specification draws from.
ManagerDts == {0, 1000}

\* The obstacle manager specification stops advancing its clock here (ms).
MaxManagerTime == 30000

\* The x jitters (1/1000 pixel) of the obstacles of one pattern: the first
\* obstacle pushed right and the second pushed left
ManagerJitterDraws == {<<10000, -15000, 10000>>}

\* generateRandomOffset(-15.0, 15.0) draws of a single spawnPattern call
\* (the distribution is over [-15, 15))
PatternJitterDraws == {-15000, 0, 10000}

\* Elapsed times (ms) of the games one frame is run on
FrameTimes == {0, 1000, 19460, 19960, 39500, 40000, 99960}

\* Frame times (ms) of a single frame, negative ones included
FrameCallDts == {-500, -100, 0, 16, 100, 500}

\* Elapsed times (ms) updateDifficulty is called with on its own
DifficultyTimes ==
    {0, 100, 1000, 5000, 10000, 20000, 24900, 25000, 25100, 39900, 40000,
     40100, 100000, 10000000}

\* Obstacle x positions (1/1000 pixel) around the player at x = 100
TripleObstacleXs == {80000 + 2500 * k : k \in 0..38}

\* ------------------------------------------------------------ fixed point

\* three decimal places
Scale == 10 * 10 * 10

\* a * r for a ratio r given in 1/1000: (a * r) \div Scale, computed from
\* the quotient and the remainder of a so that a large a does not overflow
Mul(a, r) == (a \div Scale) * r + ((a % Scale) * r) \div Scale

Max(a, b) == IF a >= b THEN a ELSE b

Min(a, b) == IF a <= b THEN a ELSE b

Abs(a) == IF a < 0 THEN -a ELSE a

\* F(x), with x evaluated once: one statement of the code running on the
\* result of the statements before it.
Then(F(_), x) == CHOOSE r \in {F(v) : v \in {x}} : TRUE

\* ------------------------------------------------------- Player constants

GROUND_Y == 400000

JUMP_STRENGTH == -400000

GRAVITY == 700000

\* FAST_FALL_MULTIPLIER = 2.5, as a ratio in 1/1000
FAST_FALL_MULTIPLIER == 2500

FAST_FALL_TERMINAL_VELOCITY == 800000

\* RUNNING_ANIMATION_SPEED = 8.0 frames per second
RUNNING_ANIMATION_SPEED == 8

DEFAULT_SIZE == [x |-> 60000, y |-> 64500]

\* sf::Vector2f(110.0f * 3 / 4, 53.0f * 3 / 4)
DUCK_SIZE == [x |-> (110000 * 3) \div 4, y |-> (53000 * 3) \div 4]

\* velocityY = 0.3 when the jump is cut short
JUMP_CUT_VELOCITY == 300

\* std::max(velocityY, 200.0)
MIN_FALL_SPEED == 200000

HEAD_WIDTH_RATIO == 500

HEAD_HEIGHT_RATIO == 470

BODY_WIDTH_RATIO == 400

BODY_HEIGHT_RATIO == 660

TAIL_WIDTH_RATIO == 250

TAIL_HEIGHT_RATIO == 370

\* setOutlineThickness(2.0f) of the player's boxes
PLAYER_OUTLINE == 2000

\* Player(100, 400) in Game::initializeSystems, posX = 100.0 in reset
PLAYER_START_X == 100000

\* ------------------------------------------------- Player region geometry

\* An sf::RectangleShape: position, size and outline thickness.
Rect(x, y, w, h, t) == [x |-> x, y |-> y, w |-> w, h |-> h, t |-> t]

SetSize(r, w, h) == [r EXCEPT !.w = w, !.h = h]

SetPosition(r, x, y) == [r EXCEPT !.x = x, !.y = y]

updateNormalStateCollision(p) ==
    LET headWidth   == Mul(p.targetSize.x, HEAD_WIDTH_RATIO)
        headHeight  == Mul(p.targetSize.y, HEAD_HEIGHT_RATIO)
        headOffsetX == p.targetSize.x - headWidth
        headOffsetY == 0
        bodyWidth   == Mul(p.targetSize.x, BODY_WIDTH_RATIO)
        bodyHeight  == Mul(p.targetSize.y, BODY_HEIGHT_RATIO)
        bodyOffsetX == p.targetSize.x - ((bodyWidth * 100) \div 55)
        bodyOffsetY == (Mul(p.targetSize.y, HEAD_HEIGHT_RATIO) * 10) \div 14
        tailWidth   == Mul(p.targetSize.x, TAIL_WIDTH_RATIO)
        tailHeight  == Mul(p.targetSize.y, TAIL_HEIGHT_RATIO)
        tailOffsetX == 0
        tailOffsetY == Mul(p.targetSize.y, 300)
    IN [p EXCEPT
          !.headCollisionBox =
              SetPosition(SetSize(@, headWidth, headHeight),
                          p.posX + headOffsetX, p.posY + headOffsetY),
          !.bodyCollisionBox =
              SetPosition(SetSize(@, bodyWidth, bodyHeight),
                          p.posX + bodyOffsetX, p.posY + bodyOffsetY),
          !.tailCollisionBox =
              SetPosition(SetSize(@, tailWidth, tailHeight),
                          p.posX - tailOffsetX, p.posY + tailOffsetY)]

\* A ducking layout that applies the tailOffsetX and tailOffsetY the code
\* computes and leaves unused: C10 depends on the tail staying at (posX, posY).
updateDuckingStateCollisionTailOffset(p) ==
    LET headWidth   == Mul(p.targetSize.x, Mul(HEAD_WIDTH_RATIO, 800))
        headHeight  == Mul(p.targetSize.y, Mul(HEAD_HEIGHT_RATIO, 900))
        headOffsetX == p.targetSize.x - headWidth
        headOffsetY == Mul(p.targetSize.y, 100)
        bodyWidth   == Mul(p.targetSize.x, Mul(BODY_WIDTH_RATIO, 1300))
        bodyHeight  == Mul(p.targetSize.y, Mul(BODY_HEIGHT_RATIO, 800))
        bodyOffsetX == (p.targetSize.x - bodyWidth) \div 2
        bodyOffsetY == Mul(p.targetSize.y, 300)
        tailWidth   == Mul(p.targetSize.x, Mul(TAIL_WIDTH_RATIO, 1200))
        tailHeight  == Mul(p.targetSize.y, Mul(TAIL_HEIGHT_RATIO, 900))
        tailOffsetX == p.targetSize.x
        tailOffsetY == Mul(p.targetSize.y, 300)
    IN [p EXCEPT
          !.headCollisionBox =
              SetPosition(SetSize(@, headWidth, headHeight),
                          p.posX + headOffsetX, p.posY + headOffsetY),
          !.bodyCollisionBox =
              SetPosition(SetSize(@, bodyWidth, bodyHeight),
                          p.posX + bodyOffsetX, p.posY + bodyOffsetY),
          !.tailCollisionBox =
              SetPosition(SetSize(@, tailWidth, tailHeight),
                          p.posX - tailOffsetX, p.posY + tailOffsetY)]

updateDuckingStateCollision(p) ==
    LET headWidth   == Mul(p.targetSize.x, Mul(HEAD_WIDTH_RATIO, 800))
        headHeight  == Mul(p.targetSize.y, Mul(HEAD_HEIGHT_RATIO, 900))
        headOffsetX == p.targetSize.x - headWidth
        headOffsetY == Mul(p.targetSize.y, 100)
        bodyWidth   == Mul(p.targetSize.x, Mul(BODY_WIDTH_RATIO, 1300))
        bodyHeight  == Mul(p.targetSize.y, Mul(BODY_HEIGHT_RATIO, 800))
        bodyOffsetX == (p.targetSize.x - bodyWidth) \div 2
        bodyOffsetY == Mul(p.targetSize.y, 300)
        tailWidth   == Mul(p.targetSize.x, Mul(TAIL_WIDTH_RATIO, 1200))
        tailHeight  == Mul(p.targetSize.y, Mul(TAIL_HEIGHT_RATIO, 900))
    IN [p EXCEPT
          !.headCollisionBox =
              SetPosition(SetSize(@, headWidth, headHeight),
                          p.posX + headOffsetX, p.posY + headOffsetY),
          !.bodyCollisionBox =
              SetPosition(SetSize(@, bodyWidth, bodyHeight),
                          p.posX + bodyOffsetX, p.posY + bodyOffsetY),
          !.tailCollisionBox =
              SetPosition(SetSize(@, tailWidth, tailHeight), p.posX, p.posY)]

updateJumpingStateCollision(p) == updateNormalStateCollision(p)

\* The isFastFalling branch of updateTripleCollisionBoxes: head and body keep
\* their sizes and x, the tail keeps its height.
updateFastFallingCollision(p) ==
    LET headOffsetY == Mul(p.targetSize.y, 100)
        bodyOffsetY == Mul(p.targetSize.y, 100)
        tailOffsetY == Mul(p.targetSize.y, 20)
        tailOffsetX == Mul(p.targetSize.x, 70)
    IN [p EXCEPT
          !.headCollisionBox = SetPosition(@, @.x, p.posY + headOffsetY),
          !.bodyCollisionBox = SetPosition(@, @.x, p.posY + bodyOffsetY),
          !.tailCollisionBox =
              SetPosition(SetSize(@, Mul(DEFAULT_SIZE.x, TAIL_WIDTH_RATIO), @.h),
                          p.posX + tailOffsetX, p.posY + tailOffsetY)]

updateLegacyBoundingBox(p) ==
    [p EXCEPT !.boundingBox =
        SetPosition(SetSize(@, p.bodyCollisionBox.w, p.bodyCollisionBox.h),
                    p.bodyCollisionBox.x, p.bodyCollisionBox.y)]

\* The state-dependent branch of updateTripleCollisionBoxes
updateRegionBoxes(p) ==
    IF p.isDucking THEN updateDuckingStateCollision(p)
    ELSE IF p.isFastFalling THEN updateFastFallingCollision(p)
    ELSE IF p.isJumping THEN updateJumpingStateCollision(p)
    ELSE updateNormalStateCollision(p)

updateTripleCollisionBoxes(p) ==
    Then(updateLegacyBoundingBox, Then(updateRegionBoxes, p))

\* targetSize = s; boundingBox.setSize(targetSize)
SetTargetSize(p, s) ==
    [p EXCEPT !.targetSize = s, !.boundingBox = SetSize(@, s.x, s.y)]

\* ------------------------------------------------------ Player operations

\* Player::Player(startX, startY)
NewPlayer(startX, startY) ==
    updateTripleCollisionBoxes(
        [posX |-> startX, posY |-> startY, velocityY |-> 0,
         isJumping |-> FALSE, isDucking |-> FALSE, isFastFalling |-> FALSE,
         duckPressed |-> FALSE,
         animationTimer |-> 0, isRunningAnimationFrame1 |-> TRUE,
         targetSize |-> DEFAULT_SIZE,
         headCollisionBox |-> Rect(0, 0, 0, 0, PLAYER_OUTLINE),
         bodyCollisionBox |-> Rect(0, 0, 0, 0, PLAYER_OUTLINE),
         tailCollisionBox |-> Rect(0, 0, 0, 0, PLAYER_OUTLINE),
         boundingBox      |-> Rect(0, 0, 0, 0, PLAYER_OUTLINE)])

\* A jump() without the "not ducking" condition: C2 depends on that condition.
jumpIgnoringDuck(p) ==
    IF ~p.isJumping
    THEN [p EXCEPT !.velocityY = JUMP_STRENGTH, !.isJumping = TRUE]
    ELSE p

\* A jump() without the "not jumping" condition (a double jump): C3 depends
\* on that condition.
jumpRelaunch(p) ==
    IF ~p.isDucking
    THEN [p EXCEPT !.velocityY = JUMP_STRENGTH, !.isJumping = TRUE]
    ELSE p

jump(p) ==
    IF ~p.isJumping /\ ~p.isDucking
    THEN [p EXCEPT !.velocityY = JUMP_STRENGTH, !.isJumping = TRUE]
    ELSE p

\* A fast-fall adjustment that keeps 30% of the upward velocity instead of
\* setting 0.3: C6 depends on the assigned value.
FastFallVelocityScaled(v) ==
    IF v < 0 THEN Mul(v, 300) ELSE Max(v, MIN_FALL_SPEED)

\* A fast-fall adjustment that leaves an upward velocity as it is
FastFallVelocityNoCut(v) ==
    IF v < 0 THEN v ELSE Max(v, MIN_FALL_SPEED)

\* velocityY after the fast-fall adjustment of startDucking
FastFallVelocity(v) ==
    IF v < 0 THEN JUMP_CUT_VELOCITY ELSE Max(v, MIN_FALL_SPEED)

\* A startDucking() whose ground branch leaves posY alone: C5 depends on the
\* shift of posY.
startDuckingNoShift(p) ==
    LET p1 == updateTripleCollisionBoxes(
                  SetTargetSize([p EXCEPT !.duckPressed = TRUE], DUCK_SIZE))
    IN IF p1.isJumping
       THEN IF ~p1.isFastFalling
            THEN updateTripleCollisionBoxes(
                     SetTargetSize(
                         [p1 EXCEPT !.isFastFalling = TRUE,
                                    !.velocityY = FastFallVelocity(p1.velocityY)],
                         DUCK_SIZE))
            ELSE p1
       ELSE IF ~p1.isDucking
            THEN updateTripleCollisionBoxes(
                     SetTargetSize([p1 EXCEPT !.isDucking = TRUE], DUCK_SIZE))
            ELSE p1

\* startDucking applying the fast-fall adjustment on every call
startDuckingEveryCall(p) ==
    LET p1 == updateTripleCollisionBoxes(
                  SetTargetSize([p EXCEPT !.duckPressed = TRUE], DUCK_SIZE))
    IN IF p1.isJumping
       THEN updateTripleCollisionBoxes(
                SetTargetSize(
                    [p1 EXCEPT !.isFastFalling = TRUE,
                               !.velocityY = FastFallVelocity(p1.velocityY)],
                    DUCK_SIZE))
       ELSE IF ~p1.isDucking
            THEN updateTripleCollisionBoxes(
                     [SetTargetSize([p1 EXCEPT !.isDucking = TRUE], DUCK_SIZE)
                         EXCEPT !.posY = GROUND_Y - DUCK_SIZE.y + DEFAULT_SIZE.y])
            ELSE p1

startDucking(p) ==
    LET p1 == updateTripleCollisionBoxes(
                  SetTargetSize([p EXCEPT !.duckPressed = TRUE], DUCK_SIZE))
    IN IF p1.isJumping
       THEN IF ~p1.isFastFalling
            THEN updateTripleCollisionBoxes(
                     SetTargetSize(
                         [p1 EXCEPT !.isFastFalling = TRUE,
                                    !.velocityY = FastFallVelocity(p1.velocityY)],
                         DUCK_SIZE))
            ELSE p1
       ELSE IF ~p1.isDucking
            THEN updateTripleCollisionBoxes(
                     [SetTargetSize([p1 EXCEPT !.isDucking = TRUE], DUCK_SIZE)
                         EXCEPT !.posY = GROUND_Y - DUCK_SIZE.y + DEFAULT_SIZE.y])
            ELSE p1

\* A stopDucking() whose airborne branch leaves isFastFalling set: C7 depends
\* on the cleared flag.
stopDuckingKeepFastFall(p) ==
    LET p1 == [p EXCEPT !.duckPressed = FALSE]
    IN IF p1.isJumping
       THEN IF p1.isFastFalling
            THEN updateTripleCollisionBoxes(SetTargetSize(p1, DEFAULT_SIZE))
            ELSE p1
       ELSE IF p1.isDucking
            THEN updateTripleCollisionBoxes(
                     [SetTargetSize([p1 EXCEPT !.isDucking = FALSE], DEFAULT_SIZE)
                         EXCEPT !.posY = GROUND_Y])
            ELSE p1

\* A stopDucking() that leaves duckPressed set: C8 depends on the cleared
\* duck-held flag.
stopDuckingKeepPressed(p) ==
    IF p.isJumping
    THEN IF p.isFastFalling
         THEN updateTripleCollisionBoxes(
                  SetTargetSize([p EXCEPT !.isFastFalling = FALSE],
                                DEFAULT_SIZE))
         ELSE p
    ELSE IF p.isDucking
         THEN updateTripleCollisionBoxes(
                  [SetTargetSize([p EXCEPT !.isDucking = FALSE], DEFAULT_SIZE)
                      EXCEPT !.posY = GROUND_Y])
         ELSE p

\* stopDucking leaving the duck size on a fast-falling player
stopDuckingKeepSize(p) ==
    LET p1 == [p EXCEPT !.duckPressed = FALSE]
    IN IF p1.isJumping
       THEN IF p1.isFastFalling
            THEN updateTripleCollisionBoxes(
                     [p1 EXCEPT !.isFastFalling = FALSE])
            ELSE p1
       ELSE IF p1.isDucking
            THEN updateTripleCollisionBoxes(
                     [SetTargetSize([p1 EXCEPT !.isDucking = FALSE], DEFAULT_SIZE)
                         EXCEPT !.posY = GROUND_Y])
            ELSE p1

stopDucking(p) ==
    LET p1 == [p EXCEPT !.duckPressed = FALSE]
    IN IF p1.isJumping
       THEN IF p1.isFastFalling
            THEN updateTripleCollisionBoxes(
                     SetTargetSize([p1 EXCEPT !.isFastFalling = FALSE],
                                   DEFAULT_SIZE))
            ELSE p1
       ELSE IF p1.isDucking
            THEN updateTripleCollisionBoxes(
                     [SetTargetSize([p1 EXCEPT !.isDucking = FALSE], DEFAULT_SIZE)
                         EXCEPT !.posY = GROUND_Y])
            ELSE p1

\* Player::updateRunningAnimation
updateRunningAnimation(p, deltaTime) ==
    LET t == p.animationTimer + deltaTime
    IN IF t * RUNNING_ANIMATION_SPEED >= 1000
       THEN [p EXCEPT !.isRunningAnimationFrame1 = ~@, !.animationTimer = 0]
       ELSE [p EXCEPT !.animationTimer = t]

\* A landing that leaves velocityY alone: C4 depends on "velocityY = 0".
LandKeepVelocity(p) ==
    LET p1 == [p EXCEPT !.posY = GROUND_Y,
                        !.isJumping = FALSE, !.isFastFalling = FALSE]
    IN IF p1.duckPressed
       THEN [SetTargetSize([p1 EXCEPT !.isDucking = TRUE], DUCK_SIZE)
                EXCEPT !.posY = GROUND_Y - DUCK_SIZE.y + DEFAULT_SIZE.y]
       ELSE SetTargetSize([p1 EXCEPT !.isDucking = FALSE], DEFAULT_SIZE)

\* A landing that leaves isJumping set: C9 depends on "isJumping = false".
LandStillJumping(p) ==
    LET p1 == [p EXCEPT !.posY = GROUND_Y, !.velocityY = 0,
                        !.isFastFalling = FALSE]
    IN IF p1.duckPressed
       THEN [SetTargetSize([p1 EXCEPT !.isDucking = TRUE], DUCK_SIZE)
                EXCEPT !.posY = GROUND_Y - DUCK_SIZE.y + DEFAULT_SIZE.y]
       ELSE SetTargetSize([p1 EXCEPT !.isDucking = FALSE], DEFAULT_SIZE)

\* The landing block of Player::update (posY >= GROUND_Y)
\* A landing that ignores the duck key
LandAlwaysRunning(p) ==
    LET p1 == [p EXCEPT !.posY = GROUND_Y, !.velocityY = 0,
                        !.isJumping = FALSE, !.isFastFalling = FALSE]
    IN SetTargetSize([p1 EXCEPT !.isDucking = FALSE], DEFAULT_SIZE)

\* A landing that leaves the player where the integration put it
LandWhereItFell(p) ==
    LET p1 == [p EXCEPT !.velocityY = 0,
                        !.isJumping = FALSE, !.isFastFalling = FALSE]
    IN IF p1.duckPressed
       THEN [SetTargetSize([p1 EXCEPT !.isDucking = TRUE], DUCK_SIZE)
                EXCEPT !.posY = GROUND_Y - DUCK_SIZE.y + DEFAULT_SIZE.y]
       ELSE SetTargetSize([p1 EXCEPT !.isDucking = FALSE], DEFAULT_SIZE)

Land(p) ==
    LET p1 == [p EXCEPT !.posY = GROUND_Y, !.velocityY = 0,
                        !.isJumping = FALSE, !.isFastFalling = FALSE]
    IN IF p1.duckPressed
       THEN [SetTargetSize([p1 EXCEPT !.isDucking = TRUE], DUCK_SIZE)
                EXCEPT !.posY = GROUND_Y - DUCK_SIZE.y + DEFAULT_SIZE.y]
       ELSE SetTargetSize([p1 EXCEPT !.isDucking = FALSE], DEFAULT_SIZE)

\* The gravity the physics step of Player::update integrates with
CurrentGravity(p) ==
    IF p.isFastFalling THEN Mul(GRAVITY, FAST_FALL_MULTIPLIER) ELSE GRAVITY

\* velocityY after the terminal-velocity cap and "velocityY += g * dt"
IntegratedVelocity(p, deltaTime) ==
    LET v0 == IF p.isFastFalling /\ p.velocityY > FAST_FALL_TERMINAL_VELOCITY
              THEN FAST_FALL_TERMINAL_VELOCITY ELSE p.velocityY
    IN v0 + (CurrentGravity(p) * deltaTime) \div Scale

\* posY integrated with the velocity of before the gravity step (the two
\* statements of the physics step swapped)
IntegratedYOldVelocity(p, deltaTime) ==
    p.posY + (p.velocityY * deltaTime) \div Scale

\* posY after "posY += velocityY * dt", before the landing test
IntegratedY(p, deltaTime) ==
    p.posY + (IntegratedVelocity(p, deltaTime) * deltaTime) \div Scale

\* The physics step of Player::update (the isJumping block)
Physics(p, deltaTime) ==
    LET p1 == [p EXCEPT !.velocityY = IntegratedVelocity(p, deltaTime),
                        !.posY = IntegratedY(p, deltaTime)]
    IN IF p1.posY >= GROUND_Y THEN Land(p1) ELSE p1

update(p, deltaTime) ==
    LET p1 == IF p.isJumping THEN Physics(p, deltaTime) ELSE p
        p2 == IF ~p1.isJumping THEN updateRunningAnimation(p1, deltaTime) ELSE p1
    IN updateTripleCollisionBoxes(p2)

reset(p) ==
    updateTripleCollisionBoxes(
        SetTargetSize(
            [p EXCEPT !.posX = PLAYER_START_X, !.posY = GROUND_Y, !.velocityY = 0,
                      !.isJumping = FALSE, !.isDucking = FALSE,
                      !.isFastFalling = FALSE, !.duckPressed = FALSE,
                      !.animationTimer = 0, !.isRunningAnimationFrame1 = TRUE],
            DEFAULT_SIZE))

\* ---------------------------------------------------------------- Obstacle

OBSTACLE_GROUND_Y == 400000

SMALL_CACTUS_SIZE == [x |-> 15000, y |-> 35000]

MID_CACTUS_SIZE == [x |-> 25000, y |-> 48000]

LARGE_CACTUS_SIZE == [x |-> 32000, y |-> 68000]

CLUSTER_CACTUS_SIZE == [x |-> 40000, y |-> 35000]

SMALL_CACTUS_COLLISION_SIZE == [x |-> 1000, y |-> 35000]

MID_CACTUS_COLLISION_SIZE == [x |-> 1500, y |-> 48000]

LARGE_CACTUS_COLLISION_SIZE == [x |-> 2000, y |-> 68000]

CLUSTER_CACTUS_COLLISION_SIZE == [x |-> 32000, y |-> 35000]

\* setOutlineThickness(2.0f) of the obstacle's bounding box
OBSTACLE_OUTLINE == 2000

\* isOffScreen: (posX + currentSize.x) < -50.0
OFF_SCREEN_MARGIN == -50000

ObstacleType == {"CACTUS_SMALL", "CACTUS_MID", "CACTUS_LARGE", "CACTUS_CLUSTER"}

getSizeForType(type) ==
    CASE type = "CACTUS_SMALL"   -> SMALL_CACTUS_SIZE
      [] type = "CACTUS_MID"     -> MID_CACTUS_SIZE
      [] type = "CACTUS_LARGE"   -> LARGE_CACTUS_SIZE
      [] type = "CACTUS_CLUSTER" -> CLUSTER_CACTUS_SIZE
      [] OTHER                   -> SMALL_CACTUS_SIZE

getCollisionSizeForType(type) ==
    CASE type = "CACTUS_SMALL"   -> SMALL_CACTUS_COLLISION_SIZE
      [] type = "CACTUS_MID"     -> MID_CACTUS_COLLISION_SIZE
      [] type = "CACTUS_LARGE"   -> LARGE_CACTUS_COLLISION_SIZE
      [] type = "CACTUS_CLUSTER" -> CLUSTER_CACTUS_COLLISION_SIZE
      [] OTHER                   -> SMALL_CACTUS_COLLISION_SIZE

\* Obstacle::updateBoundingBox: the collision box centred in the sprite
updateBoundingBox(o) ==
    LET collisionSize == getCollisionSizeForType(o.obstacleType)
        offsetX == (o.currentSize.x - collisionSize.x) \div 2
        offsetY == (o.currentSize.y - collisionSize.y) \div 2
    IN [o EXCEPT !.boundingBox =
           SetSize(SetPosition(@, o.posX + offsetX, o.posY + offsetY),
                   collisionSize.x, collisionSize.y)]

\* Obstacle::Obstacle(startX, startY, moveSpeed, type)
NewObstacle(startX, startY, moveSpeed, type) ==
    updateBoundingBox(
        [posX |-> startX, posY |-> startY, velocityX |-> moveSpeed,
         obstacleType |-> type, currentSize |-> getSizeForType(type),
         boundingBox |-> Rect(0, 0, 0, 0, OBSTACLE_OUTLINE)])

\* Obstacle::update
ObstacleUpdate(o, deltaTime) ==
    updateBoundingBox(
        [o EXCEPT !.posX = @ - (o.velocityX * deltaTime) \div Scale])

\* isOffScreen testing the left edge instead of the right edge
isOffScreenLeftEdge(o) == o.posX < OFF_SCREEN_MARGIN

isOffScreen(o) == (o.posX + o.currentSize.x) < OFF_SCREEN_MARGIN

setSpeed(o, newSpeed) == [o EXCEPT !.velocityX = newSpeed]

\* --------------------------------------------------------- CollisionManager

\* sf::Shape::getGlobalBounds: the bounds of the outline, which is the
\* rectangle grown by its outline thickness.  The outline leaves an edge
\* along its normal, and an edge of length 0 has the normal (0, 0): a
\* rectangle of height 0 is not grown in x, one of width 0 not in y.
getGlobalBounds(r) ==
    LET growX == IF r.h = 0 THEN 0 ELSE r.t
        growY == IF r.w = 0 THEN 0 ELSE r.t
    IN [left |-> r.x - growX, top |-> r.y - growY,
        width |-> r.w + 2 * growX, height |-> r.h + 2 * growY]

\* An intersection that starts at the first rectangle's left edge whatever
\* the second's: C12 depends on both left edges being compared.
IntersectionOneSided(b1, b2) ==
    [left   |-> Min(b1.left, b1.left + b1.width),
     top    |-> Max(Min(b1.top, b1.top + b1.height),
                    Min(b2.top, b2.top + b2.height)),
     right  |-> Min(Max(b1.left, b1.left + b1.width),
                    Max(b2.left, b2.left + b2.width)),
     bottom |-> Min(Max(b1.top, b1.top + b1.height),
                    Max(b2.top, b2.top + b2.height))]

\* sf::Rect::intersects: the intersection rectangle (possibly empty)
Intersection(b1, b2) ==
    LET r1MinX == Min(b1.left, b1.left + b1.width)
        r1MaxX == Max(b1.left, b1.left + b1.width)
        r1MinY == Min(b1.top, b1.top + b1.height)
        r1MaxY == Max(b1.top, b1.top + b1.height)
        r2MinX == Min(b2.left, b2.left + b2.width)
        r2MaxX == Max(b2.left, b2.left + b2.width)
        r2MinY == Min(b2.top, b2.top + b2.height)
        r2MaxY == Max(b2.top, b2.top + b2.height)
    IN [left   |-> Max(r1MinX, r2MinX), top    |-> Max(r1MinY, r2MinY),
        right  |-> Min(r1MaxX, r2MaxX), bottom |-> Min(r1MaxY, r2MaxY)]

intersects(b1, b2) ==
    LET i == Intersection(b1, b2)
    IN (i.left < i.right) /\ (i.top < i.bottom)

checkRectangleCollision(rect1, rect2) ==
    intersects(getGlobalBounds(rect1), getGlobalBounds(rect2))

RECURSIVE SqrtBetween(_, _, _)
\* the integer square root of v, known to lie in lo..hi
SqrtBetween(v, lo, hi) ==
    IF lo >= hi THEN lo
    ELSE LET mid == (lo + hi + 1) \div 2
         IN IF mid * mid <= v THEN SqrtBetween(v, mid, hi)
            ELSE SqrtBetween(v, lo, mid - 1)

\* CollisionManager::calculateDistance: std::sqrt(dx * dx + dy * dy), to
\* 1/1000 pixel below 40 pixels and to 1/100 pixel above
calculateDistance(point1, point2) ==
    LET dx == Abs(point2.x - point1.x)
        dy == Abs(point2.y - point1.y)
        cx == dx \div 10
        cy == dy \div 10
    IN IF dx + dy < 40000
       THEN SqrtBetween(dx * dx + dy * dy, 0, dx + dy)
       ELSE 10 * SqrtBetween(cx * cx + cy * cy, 0, cx + cy)

\* CollisionInfo::CollisionInfo()
NewCollisionInfo ==
    [hasCollision |-> FALSE, collisionType |-> "NO_COLLISION",
     collisionPoint |-> [x |-> 0, y |-> 0], normal |-> [x |-> 0, y |-> 0],
     penetrationDepth |-> 0,
     headHit |-> FALSE, bodyHit |-> FALSE, tailHit |-> FALSE]

\* A getDetailedCollision that takes the larger overlap as the depth: C14
\* depends on std::min.
getDetailedCollisionMaxDepth(rect1, rect2) ==
    LET bounds1 == getGlobalBounds(rect1)
        bounds2 == getGlobalBounds(rect2)
        i == Intersection(bounds1, bounds2)
        width  == i.right - i.left
        height == i.bottom - i.top
    IN IF ~intersects(bounds1, bounds2) THEN NewCollisionInfo
       ELSE [NewCollisionInfo EXCEPT
               !.hasCollision = TRUE,
               !.collisionPoint = [x |-> i.left + width \div 2,
                                   y |-> i.top + height \div 2],
               !.penetrationDepth = Max(width, height)]

getDetailedCollision(rect1, rect2) ==
    LET bounds1 == getGlobalBounds(rect1)
        bounds2 == getGlobalBounds(rect2)
        i == Intersection(bounds1, bounds2)
        width  == i.right - i.left
        height == i.bottom - i.top
        center1 == [x |-> bounds1.left + bounds1.width \div 2,
                    y |-> bounds1.top + bounds1.height \div 2]
        center2 == [x |-> bounds2.left + bounds2.width \div 2,
                    y |-> bounds2.top + bounds2.height \div 2]
        direction == [x |-> center1.x - center2.x, y |-> center1.y - center2.y]
        length == calculateDistance([x |-> 0, y |-> 0], direction)
    IN IF ~intersects(bounds1, bounds2) THEN NewCollisionInfo
       ELSE [NewCollisionInfo EXCEPT
               !.hasCollision = TRUE,
               !.collisionPoint = [x |-> i.left + width \div 2,
                                   y |-> i.top + height \div 2],
               !.penetrationDepth = Min(width, height),
               !.normal = IF length > 0
                          THEN [x |-> (direction.x * Scale) \div length,
                                y |-> (direction.y * Scale) \div length]
                          ELSE @]

\* A classification that reports the first region hit and never
\* MULTIPLE_COLLISION: C13 depends on the hit count.
determineCollisionTypeFirstHit(headHit, bodyHit, tailHit) ==
    IF headHit THEN "HEAD_COLLISION"
    ELSE IF bodyHit THEN "BODY_COLLISION"
    ELSE IF tailHit THEN "TAIL_COLLISION"
    ELSE "NO_COLLISION"

determineCollisionType(headHit, bodyHit, tailHit) ==
    LET hitCount == (IF headHit THEN 1 ELSE 0) + (IF bodyHit THEN 1 ELSE 0)
                    + (IF tailHit THEN 1 ELSE 0)
    IN IF hitCount = 0 THEN "NO_COLLISION"
       ELSE IF hitCount > 1 THEN "MULTIPLE_COLLISION"
       ELSE IF headHit THEN "HEAD_COLLISION"
       ELSE IF bodyHit THEN "BODY_COLLISION"
       ELSE IF tailHit THEN "TAIL_COLLISION"
       ELSE "NO_COLLISION"

\* checkPlayerSingleObstacleTriple taking the details from the head first
checkPlayerSingleObstacleTripleHeadFirst(p, o) ==
    LET headHit == checkRectangleCollision(p.headCollisionBox, o.boundingBox)
        bodyHit == checkRectangleCollision(p.bodyCollisionBox, o.boundingBox)
        tailHit == checkRectangleCollision(p.tailCollisionBox, o.boundingBox)
        hasCollision == headHit \/ bodyHit \/ tailHit
        primary == IF headHit THEN p.headCollisionBox
                   ELSE IF bodyHit THEN p.bodyCollisionBox
                   ELSE p.tailCollisionBox
        detailedInfo == getDetailedCollision(primary, o.boundingBox)
        info == [NewCollisionInfo EXCEPT
                   !.headHit = headHit, !.bodyHit = bodyHit,
                   !.tailHit = tailHit, !.hasCollision = hasCollision]
    IN IF hasCollision
       THEN [info EXCEPT
               !.collisionType = determineCollisionType(headHit, bodyHit, tailHit),
               !.collisionPoint = detailedInfo.collisionPoint,
               !.normal = detailedInfo.normal,
               !.penetrationDepth = detailedInfo.penetrationDepth]
       ELSE info

checkPlayerSingleObstacleTriple(p, o) ==
    LET headHit == checkRectangleCollision(p.headCollisionBox, o.boundingBox)
        bodyHit == checkRectangleCollision(p.bodyCollisionBox, o.boundingBox)
        tailHit == checkRectangleCollision(p.tailCollisionBox, o.boundingBox)
        hasCollision == headHit \/ bodyHit \/ tailHit
        primary == IF bodyHit THEN p.bodyCollisionBox
                   ELSE IF headHit THEN p.headCollisionBox
                   ELSE p.tailCollisionBox
        detailedInfo == getDetailedCollision(primary, o.boundingBox)
        info == [NewCollisionInfo EXCEPT
                   !.headHit = headHit, !.bodyHit = bodyHit,
                   !.tailHit = tailHit, !.hasCollision = hasCollision]
    IN IF hasCollision
       THEN [info EXCEPT
               !.collisionType = determineCollisionType(headHit, bodyHit, tailHit),
               !.collisionPoint = detailedInfo.collisionPoint,
               !.normal = detailedInfo.normal,
               !.penetrationDepth = detailedInfo.penetrationDepth]
       ELSE info

checkPlayerObstacleCollisionTriple(p, om) ==
    \E i \in 1..Len(om.obstacles) :
        checkPlayerSingleObstacleTriple(p, om.obstacles[i]).hasCollision

\* Player::getShape returns the legacy boundingBox
checkPlayerSingleObstacle(p, o) ==
    checkRectangleCollision(p.boundingBox, o.boundingBox)

checkPlayerObstacleCollision(p, om) ==
    \E i \in 1..Len(om.obstacles) :
        checkPlayerSingleObstacle(p, om.obstacles[i])

\* ---------------------------------------------------------- ObstacleManager

INITIAL_SPAWN_INTERVAL == 2000

MIN_SPAWN_INTERVAL == 800

INITIAL_OBSTACLE_SPEED == 200000

MAX_OBSTACLE_SPEED == 400000

SPAWN_POSITION_X == 800000

SPAWN_POSITION_Y == 424500

\* 5.0 pixel/s per second, as a ratio of 1/1000 pixel/s per ms
SPEED_INCREASE_RATE == 5000

\* 0.03 s per second
INTERVAL_DECREASE_RATE == 30

PATTERN_COOLDOWN_TIME == 4000

\* 0.04 per second
DIFFICULTY_INCREASE_RATE == 40

MAX_CONSECUTIVE_HARD == 2

\* enum class ObstaclePattern, in declaration order
PatternOrder ==
    <<"SINGLE_SMALL", "SINGLE_MID", "SINGLE_LARGE", "DOUBLE_CLOSE",
      "TRIPLE_CLUSTER", "MIXED_HEIGHTS", "WIDE_GAP", "TIGHT_SEQUENCE">>

ObstaclePattern == {PatternOrder[i] : i \in 1..Len(PatternOrder)}

PatternDef(types, positions, difficulty, minTime) ==
    [obstacleTypes |-> types, relativePositions |-> positions,
     patternDifficulty |-> difficulty, minGameTime |-> minTime]

\* ObstacleManager::initializePatterns
patternDefinitions ==
    [q \in ObstaclePattern |->
      CASE q = "SINGLE_SMALL" ->
             PatternDef(<<"CACTUS_SMALL">>, <<0>>, 100, 0)
        [] q = "SINGLE_MID" ->
             PatternDef(<<"CACTUS_MID">>, <<0>>, 250, 3000)
        [] q = "SINGLE_LARGE" ->
             PatternDef(<<"CACTUS_LARGE">>, <<0>>, 400, 8000)
        [] q = "DOUBLE_CLOSE" ->
             PatternDef(<<"CACTUS_SMALL", "CACTUS_SMALL">>, <<0, 30000>>,
                        650, 15000)
        [] q = "TRIPLE_CLUSTER" ->
             PatternDef(<<"CACTUS_SMALL", "CACTUS_MID", "CACTUS_SMALL">>,
                        <<0, 30000, 60000>>, 900, 20000)
        [] q = "MIXED_HEIGHTS" ->
             PatternDef(<<"CACTUS_LARGE", "CACTUS_SMALL">>, <<0, 40000>>,
                        500, 12000)
        [] q = "WIDE_GAP" ->
             PatternDef(<<"CACTUS_SMALL", "CACTUS_SMALL">>, <<0, 180000>>,
                        200, 0)
        [] q = "TIGHT_SEQUENCE" ->
             PatternDef(<<"CACTUS_SMALL", "CACTUS_MID", "CACTUS_LARGE">>,
                        <<0, 45000, 85000>>, 1000, 25000)]

\* ObstacleManager::ObstacleManager()
NewObstacleManager ==
    [obstacles |-> <<>>, spawnTimer |-> 0,
     obstacleInterval |-> INITIAL_SPAWN_INTERVAL,
     obstacleSpeed |-> INITIAL_OBSTACLE_SPEED,
     lastPattern |-> "SINGLE_SMALL", consecutiveHardPatterns |-> 0,
     currentDifficulty |-> 0, patternCooldownTimer |-> 0,
     availablePatterns |-> <<>>]

\* ObstacleManager::clear
clear(om) ==
    [om EXCEPT !.obstacles = <<>>, !.spawnTimer = 0,
               !.obstacleInterval = INITIAL_SPAWN_INTERVAL,
               !.obstacleSpeed = INITIAL_OBSTACLE_SPEED,
               !.currentDifficulty = 0, !.consecutiveHardPatterns = 0,
               !.patternCooldownTimer = 0, !.lastPattern = "SINGLE_SMALL",
               !.availablePatterns = <<>>]

\* updateDifficulty without the upper clamp of the speed
updateDifficultyUnclampedSpeed(om, t) ==
    [om EXCEPT
       !.obstacleSpeed = INITIAL_OBSTACLE_SPEED + Mul(t, SPEED_INCREASE_RATE),
       !.obstacleInterval =
           Max(MIN_SPAWN_INTERVAL,
               INITIAL_SPAWN_INTERVAL - Mul(t, INTERVAL_DECREASE_RATE)),
       !.currentDifficulty = Min(1000, Mul(t, DIFFICULTY_INCREASE_RATE))]

updateDifficulty(om, t) ==
    [om EXCEPT
       !.obstacleSpeed =
           Min(MAX_OBSTACLE_SPEED,
               INITIAL_OBSTACLE_SPEED + Mul(t, SPEED_INCREASE_RATE)),
       !.obstacleInterval =
           Max(MIN_SPAWN_INTERVAL,
               INITIAL_SPAWN_INTERVAL - Mul(t, INTERVAL_DECREASE_RATE)),
       !.currentDifficulty = Min(1000, Mul(t, DIFFICULTY_INCREASE_RATE))]

\* The patterns are visited in the order of the enum (the program iterates a
\* std::unordered_map, whose order the standard leaves open).
\* updateAvailablePatterns without the unlock-time filter
updateAvailablePatternsAll(om, t) ==
    [om EXCEPT !.availablePatterns = PatternOrder]

updateAvailablePatterns(om, t) ==
    LET unlocked == SelectSeq(PatternOrder,
                        LAMBDA q : t >= patternDefinitions[q].minGameTime)
    IN [om EXCEPT !.availablePatterns =
           IF unlocked = <<>> THEN <<"SINGLE_SMALL">> ELSE unlocked]

\* shouldAvoidPattern with the consecutive-hard rule only
shouldAvoidPatternConsecutiveOnly(om, pattern) ==
    LET def == patternDefinitions[pattern]
    IN (def.patternDifficulty > 600
        /\ om.consecutiveHardPatterns >= MAX_CONSECUTIVE_HARD)

\* shouldAvoidPattern with the cooldown rule only
shouldAvoidPatternCooldownOnly(om, pattern) ==
    LET def == patternDefinitions[pattern]
    IN (def.patternDifficulty > 800
        /\ om.patternCooldownTimer < PATTERN_COOLDOWN_TIME)

shouldAvoidPattern(om, pattern) ==
    LET def == patternDefinitions[pattern]
    IN \/ (def.patternDifficulty > 600
           /\ om.consecutiveHardPatterns >= MAX_CONSECUTIVE_HARD)
       \/ (def.patternDifficulty > 800
           /\ om.patternCooldownTimer < PATTERN_COOLDOWN_TIME)

\* getPatternWeight without the reduction for a pattern to avoid
getPatternWeightFull(om, pattern, difficulty) ==
    LET def == patternDefinitions[pattern]
        difficultyMatch == 1000 - Abs(def.patternDifficulty - difficulty)
    IN Mul(1000, 300 + Mul(700, difficultyMatch))

getPatternWeight(om, pattern, difficulty) ==
    LET def == patternDefinitions[pattern]
        difficultyMatch == 1000 - Abs(def.patternDifficulty - difficulty)
        weight == Mul(1000, 300 + Mul(700, difficultyMatch))
    IN IF shouldAvoidPattern(om, pattern) THEN Mul(weight, 100) ELSE weight

RECURSIVE SumWeights(_, _)
\* the accumulated weight of the first n available patterns
SumWeights(om, n) ==
    IF n = 0 THEN 0
    ELSE SumWeights(om, n - 1)
         + getPatternWeight(om, om.availablePatterns[n], om.currentDifficulty)

RECURSIVE SelectFrom(_, _, _, _)
\* the selection loop of weightedPatternSelection from pattern i on, with
\* accumulatedWeight the weight of the patterns before i
SelectFrom(om, randomValue, i, accumulatedWeight) ==
    IF i > Len(om.availablePatterns)
    THEN om.availablePatterns[Len(om.availablePatterns)]
    ELSE LET accumulated ==
                 accumulatedWeight
                 + getPatternWeight(om, om.availablePatterns[i],
                                    om.currentDifficulty)
         IN IF randomValue <= accumulated THEN om.availablePatterns[i]
            ELSE SelectFrom(om, randomValue, i + 1, accumulated)

\* u: the uniformDist draw in [0, 1), in 1/1000
weightedPatternSelection(om, u) ==
    IF om.availablePatterns = <<>> THEN "SINGLE_SMALL"
    ELSE SelectFrom(om, Mul(u, SumWeights(om, Len(om.availablePatterns))),
                    1, 0)

\* The pattern selectPattern settles on; coin is its second uniformDist draw.
\* The pattern selectPattern settles on, without the fallback
SelectedPatternNoFallback(om, u, coin) ==
    IF om.availablePatterns = <<>> THEN "SINGLE_SMALL"
    ELSE weightedPatternSelection(om, u)

SelectedPattern(om, u, coin) ==
    IF om.availablePatterns = <<>> THEN "SINGLE_SMALL"
    ELSE LET drawn == weightedPatternSelection(om, u)
         IN IF shouldAvoidPattern(om, drawn)
            THEN IF om.currentDifficulty < 300 THEN "SINGLE_SMALL"
                 ELSE IF om.currentDifficulty < 600
                      THEN (IF coin < 500 THEN "SINGLE_SMALL" ELSE "SINGLE_MID")
                      ELSE "WIDE_GAP"
            ELSE drawn

selectPattern(om, u, coin) ==
    IF om.availablePatterns = <<>> THEN om
    ELSE LET selectedPattern == SelectedPattern(om, u, coin)
         IN [om EXCEPT
               !.consecutiveHardPatterns =
                   IF patternDefinitions[selectedPattern].patternDifficulty > 600
                   THEN @ + 1 ELSE 0,
               !.lastPattern = selectedPattern]

\* spawnSingleObstacle giving the obstacle the initial speed
spawnSingleObstacleInitialSpeed(om, type, xOffset) ==
    LET offsetY == IF type = "CACTUS_MID" THEN -13000
                   ELSE IF type = "CACTUS_LARGE" THEN -33000 ELSE 0
    IN [om EXCEPT !.obstacles =
           Append(@, NewObstacle(SPAWN_POSITION_X + xOffset,
                                 SPAWN_POSITION_Y + offsetY,
                                 INITIAL_OBSTACLE_SPEED, type))]

\* spawnSingleObstacle inserting at the front of the list
spawnSingleObstacleFront(om, type, xOffset) ==
    LET offsetY == IF type = "CACTUS_MID" THEN -13000
                   ELSE IF type = "CACTUS_LARGE" THEN -33000 ELSE 0
    IN [om EXCEPT !.obstacles =
           <<NewObstacle(SPAWN_POSITION_X + xOffset,
                         SPAWN_POSITION_Y + offsetY,
                         om.obstacleSpeed, type)>> \o @]

spawnSingleObstacle(om, type, xOffset) ==
    LET offsetY == IF type = "CACTUS_MID" THEN -13000
                   ELSE IF type = "CACTUS_LARGE" THEN -33000 ELSE 0
    IN [om EXCEPT !.obstacles =
           Append(@, NewObstacle(SPAWN_POSITION_X + xOffset,
                                 SPAWN_POSITION_Y + offsetY,
                                 om.obstacleSpeed, type))]

RECURSIVE SpawnEach(_, _, _, _)
\* the loop of spawnPattern, from obstacle i on; jitter[i] is the i-th
\* generateRandomOffset(-15.0, 15.0)
SpawnEach(om, def, jitter, i) ==
    IF i > Len(def.obstacleTypes) THEN om
    ELSE LET xOffset == (IF i <= Len(def.relativePositions)
                         THEN def.relativePositions[i] ELSE 0) + jitter[i]
         IN SpawnEach(spawnSingleObstacle(om, def.obstacleTypes[i], xOffset),
                      def, jitter, i + 1)

spawnPattern(om, pattern, jitter) ==
    LET def == patternDefinitions[pattern]
        om1 == SpawnEach(om, def, jitter, 1)
    IN IF def.patternDifficulty > 600
       THEN [om1 EXCEPT !.patternCooldownTimer = 0] ELSE om1

removeOffScreenObstacles(om) ==
    [om EXCEPT !.obstacles = SelectSeq(@, LAMBDA o : ~isOffScreen(o))]

\* updateExistingObstacles without the setSpeed call
updateExistingObstaclesOwnSpeed(om, deltaTime) ==
    [om EXCEPT !.obstacles =
        [i \in 1..Len(@) |-> ObstacleUpdate(@[i], deltaTime)]]

updateExistingObstacles(om, deltaTime) ==
    [om EXCEPT !.obstacles =
        [i \in 1..Len(@) |->
            ObstacleUpdate(setSpeed(@[i], om.obstacleSpeed), deltaTime)]]

\* Steps 1 and 2 of ObstacleManager::update and the spawn timer's advance
BeforeSpawn(om, deltaTime, t) ==
    LET om1 == updateAvailablePatterns(updateDifficulty(om, t), t)
        om2 == [om1 EXCEPT !.patternCooldownTimer = @ + deltaTime]
        om3 == updateExistingObstacles(om2, deltaTime)
    IN [om3 EXCEPT !.spawnTimer = @ + deltaTime]

SpawnDue(om, deltaTime, t) ==
    LET b == BeforeSpawn(om, deltaTime, t)
    IN b.spawnTimer >= b.obstacleInterval

\* Steps 1 to 3 of ObstacleManager::update; rnd holds the random draws of
\* the call: u and coin (uniformDist), jitter (x offsets), timerJitter
\* (spawn timer).
\* Steps 1 to 3 of update without the reset of the spawn timer
UpdateBeforeRemovalKeepTimer(om, deltaTime, t, rnd) ==
    LET b == BeforeSpawn(om, deltaTime, t)
    IN IF b.spawnTimer >= b.obstacleInterval
       THEN LET s == selectPattern(b, rnd.u, rnd.coin)
            IN spawnPattern(s, SelectedPattern(b, rnd.u, rnd.coin), rnd.jitter)
       ELSE b

UpdateBeforeRemoval(om, deltaTime, t, rnd) ==
    LET b == BeforeSpawn(om, deltaTime, t)
    IN IF b.spawnTimer >= b.obstacleInterval
       THEN LET s == selectPattern(b, rnd.u, rnd.coin)
            IN [spawnPattern(s, SelectedPattern(b, rnd.u, rnd.coin), rnd.jitter)
                   EXCEPT !.spawnTimer = rnd.timerJitter]
       ELSE b

\* ObstacleManager::update
ObstacleManagerUpdate(om, deltaTime, t, rnd) ==
    removeOffScreenObstacles(UpdateBeforeRemoval(om, deltaTime, t, rnd))

\* --------------------------------------------------------------------- Game

\* The Game object's fields as one value
Game ==
    [player |-> player, obstacleManager |-> obstacleManager,
     currentState |-> currentState, previousState |-> previousState,
     gameTime |-> gameTime, currentScore |-> currentScore,
     highScore |-> highScore]

\* static_cast<int>: truncation toward zero
TruncDiv(a, b) == IF a >= 0 THEN a \div b ELSE -((-a) \div b)

\* a score computed from the elapsed time alone
calculateScoreTimeOnly(g) == TruncDiv(g.gameTime * 10, Scale)

\* static_cast<int>(gameTime * 10 + (currentSpeed / 200 - 1))
calculateScore(g) ==
    TruncDiv(g.gameTime * 2000 + g.obstacleManager.obstacleSpeed - 200000,
             200000)

\* updateHighScore storing the final score of every game
updateHighScoreAlways(g) == [g EXCEPT !.highScore = g.currentScore]

updateHighScore(g) ==
    IF g.currentScore > g.highScore
    THEN [g EXCEPT !.highScore = g.currentScore] ELSE g

checkCollisions(g) == checkPlayerObstacleCollision(g.player, g.obstacleManager)

\* resetGame leaving the player as it was
resetGameKeepPlayer(g) ==
    [g EXCEPT !.gameTime = 0, !.currentScore = 0,
              !.obstacleManager = clear(@)]

resetGame(g) ==
    [g EXCEPT !.gameTime = 0, !.currentScore = 0,
              !.player = reset(@), !.obstacleManager = clear(@)]

changeState(g, newState) ==
    IF g.currentState = newState THEN g
    ELSE LET g1 == [g EXCEPT !.previousState = g.currentState,
                             !.currentState = newState]
         IN IF newState = "PLAYING" THEN resetGame(g1)
            ELSE IF newState = "GAME_OVER" THEN updateHighScore(g1)
            ELSE g1

updatePlayingState(g, deltaTime, rnd) ==
    LET t  == g.gameTime + deltaTime
        g1 == [g EXCEPT
                 !.gameTime = t,
                 !.player = update(@, deltaTime),
                 !.obstacleManager = ObstacleManagerUpdate(@, deltaTime, t, rnd)]
        g2 == [g1 EXCEPT !.currentScore = calculateScore(g1)]
    IN IF checkCollisions(g2) THEN changeState(g2, "GAME_OVER") ELSE g2

\* updateGameOverState that keeps the player moving
updateGameOverStateMovingPlayer(g, deltaTime) ==
    [g EXCEPT !.player = update(@, deltaTime)]

updateGameOverState(g, deltaTime) == g

\* Game::update (the score displays are not modelled)
GameUpdate(g, deltaTime, rnd) ==
    IF g.currentState = "PLAYING" THEN updatePlayingState(g, deltaTime, rnd)
    ELSE IF g.currentState = "GAME_OVER" THEN updateGameOverState(g, deltaTime)
    ELSE g

handlePlayingStateEvents(g, type, key) ==
    IF type = "KeyPressed"
    THEN LET g1 == IF key \in {"Space", "Up"}
                   THEN [g EXCEPT !.player = jump(@)] ELSE g
             g2 == IF key = "Escape" THEN changeState(g1, "GAME_OVER") ELSE g1
         IN IF key = "Down" THEN [g2 EXCEPT !.player = startDucking(@)] ELSE g2
    ELSE IF type = "KeyReleased" /\ key = "Down"
         THEN [g EXCEPT !.player = stopDucking(@)]
         ELSE g

\* handleGameOverStateEvents leaving the game-over screen for the menu
handleGameOverStateEventsToMenu(g, type, key) ==
    IF type = "KeyPressed" /\ key = "R" THEN changeState(g, "MENU") ELSE g

handleGameOverStateEvents(g, type, key) ==
    IF type = "KeyPressed" /\ key = "R" THEN changeState(g, "PLAYING") ELSE g

\* One event of Game::handleEvents
handleEvent(g, type, key) ==
    IF g.currentState = "PLAYING" THEN handlePlayingStateEvents(g, type, key)
    ELSE IF g.currentState = "GAME_OVER"
         THEN handleGameOverStateEvents(g, type, key)
         ELSE g

\* ----------------------------------------------------------- specifications

Keys == {"Space", "Up", "Down", "Escape", "R", "A"}

EventTypes == {"KeyPressed", "KeyReleased"}

NoDraws == [u |-> 0, coin |-> 0, jitter |-> <<0, 0, 0>>, timerJitter |-> 0]

\* The random draws a frame can make: those of one spawn when one is due.
Draws(g, deltaTime) ==
    LET t == g.gameTime + deltaTime
        b == BeforeSpawn(g.obstacleManager, deltaTime, t)
    IN IF g.currentState = "PLAYING" /\ SpawnDue(g.obstacleManager, deltaTime, t)
       THEN UNION { UNION {
                { [u |-> u, coin |-> c, jitter |-> j, timerJitter |-> tj] :
                    j \in [1..Len(patternDefinitions[SelectedPattern(b, u, c)]
                                     .obstacleTypes) -> JitterDraws],
                    tj \in TimerJitterDraws }
                : c \in (IF shouldAvoidPattern(b, weightedPatternSelection(b, u))
                            /\ b.currentDifficulty >= 300
                            /\ b.currentDifficulty < 600
                         THEN {0, 500} ELSE {0}) }
              : u \in UniformDraws }
       ELSE {NoDraws}

SetGame(g) ==
    /\ player' = g.player
    /\ obstacleManager' = g.obstacleManager
    /\ currentState' = g.currentState
    /\ previousState' = g.previousState
    /\ gameTime' = g.gameTime
    /\ currentScore' = g.currentScore
    /\ highScore' = g.highScore

\* no function call is being observed
NoProbe == [fn |-> "none", args |-> <<>>, done |-> FALSE, result |-> <<>>]

\* The objects as Game::Game() constructs them
Constructed ==
    /\ player = NewPlayer(PLAYER_START_X, GROUND_Y)
    /\ obstacleManager = NewObstacleManager
    /\ currentState = "PLAYING"
    /\ previousState = "PLAYING"
    /\ gameTime = 0
    /\ currentScore = 0
    /\ highScore = 0
    /\ lastOp = "init"
    /\ lastDt = 0
    /\ prev = NewPlayer(PLAYER_START_X, GROUND_Y)

Init == Constructed /\ probe = NoProbe

\* the operation an event runs
EventOp(g, type, key) ==
    IF g.currentState = "PLAYING"
    THEN IF type = "KeyPressed" /\ key \in {"Space", "Up"} THEN "jump"
         ELSE IF type = "KeyPressed" /\ key = "Escape" THEN "escape"
         ELSE IF type = "KeyPressed" /\ key = "Down" THEN "startDucking"
         ELSE IF type = "KeyReleased" /\ key = "Down" THEN "stopDucking"
         ELSE "ignored"
    ELSE IF type = "KeyPressed" /\ key = "R" THEN "restart" ELSE "ignored"

Event(type, key) ==
    /\ SetGame(handleEvent(Game, type, key))
    /\ lastOp' = EventOp(Game, type, key)
    /\ lastDt' = 0
    /\ UNCHANGED <<prev, probe>>

Frame(deltaTime) ==
    /\ currentState = "PLAYING" => gameTime + deltaTime <= MaxGameTime
    /\ \E rnd \in Draws(Game, deltaTime) :
           SetGame(GameUpdate(Game, deltaTime, rnd))
    /\ lastOp' = IF currentState = "PLAYING" THEN "update" ELSE "idle"
    /\ lastDt' = deltaTime
    /\ UNCHANGED <<prev, probe>>

Next ==
    \/ \E type \in EventTypes, key \in Keys : Event(type, key)
    \/ \E deltaTime \in FrameDts : Frame(deltaTime)

Spec == Init /\ [][Next]_vars

\* The player alone, driven by any sequence of its public operations.
PlayerOp(op, p, deltaTime) ==
    /\ player' = p
    /\ lastOp' = op
    /\ lastDt' = deltaTime
    /\ prev' = player
    /\ UNCHANGED <<gameVars, probe>>

PJump == PlayerOp("jump", jump(player), 0)

PStartDucking == PlayerOp("startDucking", startDucking(player), 0)

PStopDucking == PlayerOp("stopDucking", stopDucking(player), 0)

PUpdate(deltaTime) == PlayerOp("update", update(player, deltaTime), deltaTime)

PReset == PlayerOp("reset", reset(player), 0)

PlayerNext ==
    \/ PJump
    \/ PStartDucking
    \/ PStopDucking
    \/ \E deltaTime \in PlayerDts : PUpdate(deltaTime)
    \/ PReset

PlayerSpec == Init /\ [][PlayerNext]_vars

\* A call of function fn with arguments args that has not run yet
Call(fn, args) == [fn |-> fn, args |-> args, done |-> FALSE, result |-> <<>>]

\* The observed call runs and returns result
Return(result) ==
    /\ ~probe.done
    /\ probe' = [probe EXCEPT !.done = TRUE, !.result = result]
    /\ UNCHANGED <<player, gameVars, lastOp, lastDt, prev>>

\* true when the observed call was of fn and has returned
Returned(fn) == probe.fn = fn /\ probe.done

\* The CollisionManager's functions, each called once on arguments drawn from
\* RectInputs (two rectangle shapes) or from TriplePlayers and
\* TripleObstacles (a player in one of its states and an obstacle near it).
RectInputs ==
    {Rect(x, y, w, h, t) :
        x \in RectXs, y \in RectYs, w \in RectSizes, h \in RectSizes,
        t \in OutlineDraws}

TriplePlayers ==
    LET p0 == NewPlayer(PLAYER_START_X, GROUND_Y)
        p1 == update(jump(p0), 100)
    IN {p0, startDucking(p0), p1, update(startDucking(p1), 100)}

TripleObstacles ==
    {spawnSingleObstacle(NewObstacleManager, type, x - SPAWN_POSITION_X)
         .obstacles[1] :
        type \in ObstacleType, x \in TripleObstacleXs}

CollisionInit ==
    /\ Constructed
    /\ probe \in
         {Call("checkRectangleCollision", <<a, b>>) :
             a \in RectInputs, b \in RectInputs}
         \cup {Call("getDetailedCollision", <<a, b>>) :
             a \in RectInputs, b \in RectInputs}
         \cup {Call("checkPlayerSingleObstacleTriple", <<p, o>>) :
             p \in TriplePlayers, o \in TripleObstacles}

CallCheckRectangleCollision ==
    /\ probe.fn = "checkRectangleCollision"
    /\ Return(checkRectangleCollision(probe.args[1], probe.args[2]))

CallGetDetailedCollision ==
    /\ probe.fn = "getDetailedCollision"
    /\ Return(getDetailedCollision(probe.args[1], probe.args[2]))

CallCheckPlayerSingleObstacleTriple ==
    /\ probe.fn = "checkPlayerSingleObstacleTriple"
    /\ Return(checkPlayerSingleObstacleTriple(probe.args[1], probe.args[2]))

CollisionNext ==
    \/ CallCheckRectangleCollision
    \/ CallGetDetailedCollision
    \/ CallCheckPlayerSingleObstacleTriple

CollisionSpec == CollisionInit /\ [][CollisionNext]_vars

\* The ObstacleManager alone, driven as Game drives it: update(dt, t) with
\* the clock t advanced by dt, and clear() with the clock back at 0
\* (Game::resetGame).  probe.result is the history of the manager:
\*   beforeRemoval  the obstacle list of the last update before step 4
\*   drawn          the pattern the weighted draw of the last update gave
\*   spawned        the pattern the last update spawned ("none" if none)
\*   spawnTimes     for each live obstacle, the clock of the update that
\*                  spawned it
\*   recent         the last three patterns selected
\*   sinceHard      the deltaTime accumulated since the manager was built or
\*                  cleared or last spawned a pattern of difficulty > 0.6
\*   sinceHardAtSpawn  sinceHard at the moment this update spawned (-1 when
\*                  it spawned nothing)
NewManagerLog ==
    [beforeRemoval |-> <<>>, drawn |-> "none", spawned |-> "none",
     spawnTimes |-> <<>>, recent |-> <<>>, sinceHard |-> 0,
     sinceHardAtSpawn |-> -1]

ManagerInit ==
    /\ Constructed
    /\ probe = [fn |-> "ObstacleManager", args |-> <<>>, done |-> TRUE,
                result |-> NewManagerLog]

\* One uniformDist draw inside the weight interval of each available pattern
PatternDraws(om) ==
    LET n == Len(om.availablePatterns)
    IN {(((SumWeights(om, i - 1) + SumWeights(om, i)) \div 2) * Scale)
            \div SumWeights(om, n) : i \in 1..n}

\* The random draws an update can make: those of one spawn when one is due.
ManagerDraws(om, deltaTime, t) ==
    IF SpawnDue(om, deltaTime, t)
    THEN LET b == BeforeSpawn(om, deltaTime, t)
         IN {[u |-> u, coin |-> c, jitter |-> j, timerJitter |-> tj] :
                u \in PatternDraws(b),
                c \in (IF b.currentDifficulty >= 300
                          /\ b.currentDifficulty < 600
                       THEN {0, 500} ELSE {0}),
                j \in ManagerJitterDraws, tj \in TimerJitterDraws}
    ELSE {NoDraws}

\* the last n elements of sequence q
LastOf(q, n) == IF Len(q) <= n THEN q ELSE SubSeq(q, Len(q) - n + 1, Len(q))

\* the spawn times of the obstacles that removeOffScreenObstacles keeps
KeptSpawnTimes(obstacles, times) ==
    LET pairs == [i \in 1..Len(obstacles) |-> <<obstacles[i], times[i]>>]
        kept  == SelectSeq(pairs, LAMBDA pr : ~isOffScreen(pr[1]))
    IN [i \in 1..Len(kept) |-> kept[i][2]]

\* the history after update(deltaTime, t) with draws rnd
ManagerLogAfterUpdate(log, om, deltaTime, t, rnd) ==
    LET b    == BeforeSpawn(om, deltaTime, t)
        due  == SpawnDue(om, deltaTime, t)
        cand == UpdateBeforeRemoval(om, deltaTime, t, rnd).obstacles
        spawned == IF due THEN SelectedPattern(b, rnd.u, rnd.coin) ELSE "none"
        times == log.spawnTimes
                     \o [i \in 1..(Len(cand) - Len(om.obstacles)) |-> t]
    IN [beforeRemoval |-> cand,
        drawn |-> IF due THEN weightedPatternSelection(b, rnd.u) ELSE "none",
        spawned |-> spawned,
        spawnTimes |-> KeptSpawnTimes(cand, times),
        recent |-> IF due THEN LastOf(Append(log.recent, spawned), 3)
                   ELSE log.recent,
        sinceHard |->
            IF due /\ patternDefinitions[spawned].patternDifficulty > 600
            THEN 0 ELSE log.sinceHard + deltaTime,
        sinceHardAtSpawn |-> IF due THEN log.sinceHard + deltaTime ELSE -1]

MUpdate(deltaTime) ==
    /\ gameTime + deltaTime <= MaxManagerTime
    /\ \E rnd \in ManagerDraws(obstacleManager, deltaTime, gameTime + deltaTime) :
         /\ obstacleManager' =
                ObstacleManagerUpdate(obstacleManager, deltaTime,
                                      gameTime + deltaTime, rnd)
         /\ probe' = [fn |-> "update",
                      args |-> <<deltaTime, gameTime + deltaTime>>,
                      done |-> TRUE,
                      result |-> ManagerLogAfterUpdate(
                                     probe.result, obstacleManager, deltaTime,
                                     gameTime + deltaTime, rnd)]
    /\ gameTime' = gameTime + deltaTime
    /\ lastOp' = "update"
    /\ lastDt' = deltaTime
    /\ UNCHANGED <<player, currentState, previousState, currentScore,
                   highScore, prev>>

MClear ==
    /\ obstacleManager' = clear(obstacleManager)
    /\ gameTime' = 0
    /\ probe' = [fn |-> "clear", args |-> <<>>, done |-> TRUE,
                 result |-> [NewManagerLog EXCEPT
                                !.recent = probe.result.recent]]
    /\ lastOp' = "clear"
    /\ lastDt' = 0
    /\ UNCHANGED <<player, currentState, previousState, currentScore,
                   highScore, prev>>

ManagerNext ==
    \/ \E deltaTime \in ManagerDts : MUpdate(deltaTime)
    \/ MClear

ManagerSpec == ManagerInit /\ [][ManagerNext]_vars

\* The managers spawnPattern is called on: a new one, and one at game time
\* 20 s (speed 300) that already holds the two obstacles of a pattern.
SpawnManagers ==
    {NewObstacleManager,
     spawnPattern(updateDifficulty(NewObstacleManager, 20000), "WIDE_GAP",
                  <<0, 0>>)}

\* spawnPattern and updateDifficulty, each called once: spawnPattern on a
\* manager of SpawnManagers for a pattern of the catalog and jitters from
\* PatternJitterDraws,
\* updateDifficulty on a manager from DifficultyManagers at a time from
\* DifficultyTimes.
DifficultyManagers ==
    {NewObstacleManager,
     [NewObstacleManager EXCEPT !.obstacleSpeed = MAX_OBSTACLE_SPEED,
                                !.obstacleInterval = MIN_SPAWN_INTERVAL,
                                !.currentDifficulty = 1000],
     [NewObstacleManager EXCEPT !.obstacleSpeed = 250000,
                                !.obstacleInterval = 1700,
                                !.currentDifficulty = 400]}

\* Managers on which update is called once, with the value drawn for the
\* spawn timer as last argument: at elapsed time t0 with one small obstacle
\* spawned half a second earlier and half a second on the spawn timer.
UpdateManager(t0) ==
    LET om0 == updateAvailablePatterns(
                   updateDifficulty(NewObstacleManager, t0), t0)
        om1 == updateExistingObstacles(
                   spawnPattern(om0, "SINGLE_SMALL", <<0>>), 500)
    IN [om1 EXCEPT !.spawnTimer = 500, !.patternCooldownTimer = 500]

\* Managers on which getPatternWeight is called once, for the available
\* pattern of a given index: difficulty and unlocked
\* patterns of elapsed time t0, with the counter of consecutive hard patterns
\* and the cooldown timer as they stand between two spawns.
WeightManagers ==
    {[updateAvailablePatterns(updateDifficulty(NewObstacleManager, t0), t0)
         EXCEPT !.consecutiveHardPatterns = c[1],
                !.patternCooldownTimer = c[2]] :
        t0 \in WeightTimes,
        c \in {<<0, 5000>>, <<0, 1000>>, <<1, 1000>>, <<2, 1000>>}}

ManagerCallInit ==
    /\ Constructed
    /\ probe \in
         UNION {{Call("spawnPattern", <<pattern, jitter, om>>) :
                    jitter \in [1..Len(patternDefinitions[pattern].obstacleTypes)
                                   -> PatternJitterDraws],
                    om \in SpawnManagers} :
                pattern \in ObstaclePattern}
         \cup {Call("updateDifficulty", <<om, t>>) :
                  om \in DifficultyManagers, t \in DifficultyTimes}
         \cup {Call("update", <<UpdateManager(t0), deltaTime, t0 + deltaTime,
                                 timerJitter>>) :
                  t0 \in UpdateTimes, deltaTime \in UpdateDts,
                  timerJitter \in UpdateTimerJitters}
         \cup UNION {{Call("getPatternWeight", <<om, i>>) :
                        i \in 1..Len(om.availablePatterns)} :
                     om \in WeightManagers}

CallSpawnPattern ==
    /\ probe.fn = "spawnPattern"
    /\ Return(spawnPattern(probe.args[3], probe.args[1], probe.args[2])
                  .obstacles)

CallUpdateDifficulty ==
    /\ probe.fn = "updateDifficulty"
    /\ Return(updateDifficulty(probe.args[1], probe.args[2]))

CallUpdate ==
    /\ probe.fn = "update"
    /\ \E rnd \in ManagerDraws(probe.args[1], probe.args[2], probe.args[3]) :
           Return(ObstacleManagerUpdate(probe.args[1], probe.args[2],
                                        probe.args[3],
                                        [rnd EXCEPT !.timerJitter =
                                                        probe.args[4]]))

\* weightedPatternSelection calls getPatternWeight for each available
\* pattern in turn, with currentDifficulty
CallGetPatternWeight ==
    /\ probe.fn = "getPatternWeight"
    /\ Return(getPatternWeight(probe.args[1],
                               probe.args[1].availablePatterns[probe.args[2]],
                               probe.args[1].currentDifficulty))

ManagerCallNext ==
    \/ CallSpawnPattern
    \/ CallUpdateDifficulty
    \/ CallUpdate
    \/ CallGetPatternWeight

ManagerCallSpec == ManagerCallInit /\ [][ManagerCallNext]_vars

\* selectPattern called once on a manager of WeightManagers, with the number
\* drawn for the weighted selection and the one drawn for the coin flip.
SelectCallInit ==
    /\ Constructed
    /\ probe \in UNION {{Call("selectPattern", <<om, u, coin>>) :
                            u \in PatternDraws(om), coin \in {0, 500}} :
                         om \in WeightManagers}

CallSelectPattern ==
    /\ probe.fn = "selectPattern"
    /\ Return(selectPattern(probe.args[1], probe.args[2], probe.args[3]))

SelectCallNext == CallSelectPattern

SelectCallSpec == SelectCallInit /\ [][SelectCallNext]_vars

\* One frame of the playing state, run once on a game that has played for t0
\* and spawned a single obstacle half a second ago, with the player in one of
\* the states of TriplePlayers.
FrameGame(t0, p) ==
    LET om0 == updateAvailablePatterns(
                   updateDifficulty(NewObstacleManager, t0), t0)
        om1 == updateExistingObstacles(
                   spawnPattern(om0, "SINGLE_SMALL", <<0>>), 500)
        g   == [player |-> p,
                obstacleManager |-> [om1 EXCEPT !.spawnTimer = 500,
                                                !.patternCooldownTimer = 500],
                currentState |-> "PLAYING", previousState |-> "PLAYING",
                gameTime |-> t0, currentScore |-> 0, highScore |-> 0]
    IN [g EXCEPT !.currentScore = calculateScore(g)]

FrameCallInit ==
    /\ Constructed
    /\ probe \in {Call("updatePlayingState", <<FrameGame(t0, p), deltaTime>>) :
                     t0 \in FrameTimes, p \in TriplePlayers,
                     deltaTime \in FrameCallDts}

CallUpdatePlayingState ==
    /\ probe.fn = "updatePlayingState"
    /\ \E rnd \in ManagerDraws(probe.args[1].obstacleManager, probe.args[2],
                                probe.args[1].gameTime + probe.args[2]) :
           Return(updatePlayingState(probe.args[1], probe.args[2], rnd))

FrameCallNext == CallUpdatePlayingState

FrameCallSpec == FrameCallInit /\ [][FrameCallNext]_vars

\* ------------------------------------------------------------------ claims

\* true when any of the three regions of p meets obstacle box o
AnyRegionHit(p, om) ==
    \E i \in 1..Len(om.obstacles) :
        \/ checkRectangleCollision(p.headCollisionBox, om.obstacles[i].boundingBox)
        \/ checkRectangleCollision(p.bodyCollisionBox, om.obstacles[i].boundingBox)
        \/ checkRectangleCollision(p.tailCollisionBox, om.obstacles[i].boundingBox)

\* C1: at the end of every Playing frame, if the Head, Body or Tail region of
\* the player intersects the collision rectangle of a live obstacle, the
\* driver is in GameOver.
C1_AnyRegionHitEndsGame ==
    (lastOp = "update" /\ AnyRegionHit(player, obstacleManager))
        => currentState = "GAME_OVER"

\* C2: isJumping and isDucking are never both true, and isFastFalling is true
\* only when isJumping is true.
C2_OneBaseState ==
    /\ ~(player.isJumping /\ player.isDucking)
    /\ player.isFastFalling => player.isJumping

\* C2 witness: a fast fall is in progress after an update.
C2_Witness ==
    lastOp = "update" /\ player.isFastFalling /\ player.isJumping

\* the position, velocity, state flags and size of a player
Kinematic(p) ==
    <<p.posX, p.posY, p.velocityY, p.isJumping, p.isDucking, p.isFastFalling,
      p.duckPressed, p.targetSize>>

\* C3: jump() on a player that is neither jumping nor ducking sets the
\* velocity to -400 and sets isJumping; on a jumping (also fast-falling) or
\* ground-ducking player it changes no position, velocity, flag or size.
C3_JumpEffect ==
    lastOp = "jump" =>
        IF ~prev.isJumping /\ ~prev.isDucking
        THEN player.velocityY = -400000 /\ player.isJumping
        ELSE Kinematic(player) = Kinematic(prev)

\* C3 witness: jump() was called on a ground-ducking player.
C3_Witness ==
    lastOp = "jump" /\ prev.isDucking /\ ~prev.isJumping

\* C4: an update of a jumping player whose integrated y reaches the ground
\* line ends with velocity 0, isJumping and isFastFalling false, Ducking when
\* the duck key is held and Running (default size, y = 400) otherwise.
C4_Landing ==
    (lastOp = "update" /\ prev.isJumping /\ IntegratedY(prev, lastDt) >= 400000)
        => /\ player.velocityY = 0
           /\ ~player.isJumping
           /\ ~player.isFastFalling
           /\ IF prev.duckPressed
              THEN player.isDucking
              ELSE /\ ~player.isDucking
                   /\ player.targetSize = [x |-> 60000, y |-> 64500]
                   /\ player.posY = 400000

\* C4 witness: a landing with the duck key held.
C4_Witness ==
    /\ lastOp = "update" /\ prev.isJumping /\ prev.duckPressed
    /\ IntegratedY(prev, lastDt) >= 400000

\* C5: startDucking() on a grounded, non-ducking player enters Ducking with
\* size 82.5 x 39.75 and keeps the bottom edge at 400 + 64.5; a landing into
\* Ducking has the same bottom edge.
C5_DuckKeepsFeet ==
    /\ (lastOp = "startDucking" /\ ~prev.isJumping /\ ~prev.isDucking)
          => /\ player.isDucking
             /\ player.targetSize = [x |-> 82500, y |-> 39750]
             /\ player.posY + player.targetSize.y = 464500
             /\ prev.posY + prev.targetSize.y = 464500
    /\ (lastOp = "update" /\ prev.isJumping /\ player.isDucking)
          => /\ player.targetSize = [x |-> 82500, y |-> 39750]
             /\ player.posY + player.targetSize.y = 464500

\* C5 witness: startDucking() was called on a Running player.
C5_Witness ==
    lastOp = "startDucking" /\ ~prev.isJumping /\ ~prev.isDucking
    /\ player.isDucking

\* C6 as stated: after startDucking() on an airborne player that was not
\* fast-falling, the player is fast-falling with downward velocity >= 200.
C6_Original ==
    (lastOp = "startDucking" /\ prev.isJumping /\ ~prev.isFastFalling)
        => player.isFastFalling /\ player.velocityY >= 200000

\* C6 amended: after startDucking() on an airborne player that was not
\* fast-falling, the player is fast-falling; its velocity is max(v, 200) when
\* it was already descending (v >= 0) and exactly 0.3 when it was ascending.
C6_FastFallVelocity ==
    (lastOp = "startDucking" /\ prev.isJumping /\ ~prev.isFastFalling)
        => /\ player.isFastFalling
           /\ IF prev.velocityY < 0
              THEN player.velocityY = 300
              ELSE /\ player.velocityY >= 200000
                   /\ player.velocityY >= prev.velocityY
                   /\ player.velocityY \in {200000, prev.velocityY}

\* C6 witness: startDucking() on a descending player slower than 200.
C6_Witness ==
    /\ lastOp = "startDucking" /\ prev.isJumping /\ ~prev.isFastFalling
    /\ prev.velocityY >= 0 /\ prev.velocityY < 200000

\* C7: stopDucking() clears the duck-held flag; a ground-ducking player
\* returns to Running with default size at the ground line; a fast-falling
\* player stops fast-falling, gets the default size, stays jumping and
\* integrates with normal gravity; an airborne player that is not
\* fast-falling keeps position, velocity, size and state flags.
C7_StopDucking ==
    lastOp = "stopDucking" =>
        /\ ~player.duckPressed
        /\ (prev.isDucking /\ ~prev.isJumping)
              => /\ ~player.isDucking /\ ~player.isJumping
                 /\ ~player.isFastFalling
                 /\ player.targetSize = [x |-> 60000, y |-> 64500]
                 /\ player.posY = 400000
        /\ prev.isFastFalling
              => /\ ~player.isFastFalling /\ player.isJumping
                 /\ player.targetSize = [x |-> 60000, y |-> 64500]
                 /\ \A dt \in PlayerDts :
                       IntegratedVelocity(player, dt)
                           = player.velocityY + 700 * dt
        /\ (prev.isJumping /\ ~prev.isFastFalling)
              => /\ player.posX = prev.posX /\ player.posY = prev.posY
                 /\ player.velocityY = prev.velocityY
                 /\ player.targetSize = prev.targetSize
                 /\ player.isJumping = prev.isJumping
                 /\ player.isDucking = prev.isDucking
                 /\ player.isFastFalling = prev.isFastFalling

\* C7 witness: stopDucking() was called on a fast-falling player.
C7_Witness ==
    lastOp = "stopDucking" /\ prev.isFastFalling /\ player.isJumping

\* the state flags of a player
Flags(p) == <<p.isJumping, p.isDucking, p.isFastFalling, p.duckPressed>>

\* C8 as stated: on an airborne, not fast-falling player startDucking() then
\* stopDucking() leaves velocity, target size and all flags as before.
C8_Original ==
    (player.isJumping /\ ~player.isFastFalling) =>
        LET q == stopDucking(startDucking(player))
        IN /\ q.velocityY = player.velocityY
           /\ q.targetSize = player.targetSize
           /\ Flags(q) = Flags(player)

\* C8 amended: on an airborne, not fast-falling player startDucking() then
\* stopDucking() leaves position, target size and all flags as before; the
\* velocity is not reverted, it stays the fast-fall value (0.3 when the player
\* was ascending, max(v, 200) otherwise).
C8_DuckRoundTrip ==
    (player.isJumping /\ ~player.isFastFalling) =>
        LET q == stopDucking(startDucking(player))
        IN /\ q.velocityY = IF player.velocityY < 0 THEN 300
                            ELSE Max(player.velocityY, 200000)
           /\ q.posY = player.posY
           /\ q.targetSize = player.targetSize
           /\ Flags(q) = Flags(player)

\* C8 witness: stopDucking() right after the startDucking() that cut an
\* ascending jump (the velocity is still the cut value 0.3).
C8_Witness ==
    /\ lastOp = "stopDucking" /\ prev.isFastFalling /\ prev.velocityY = 300
    /\ player.isJumping /\ ~player.isFastFalling /\ player.velocityY = 300

\* C9: with updates of positive dt recurring, a jumping player eventually is
\* back on the ground with velocity 0.
C9_EventuallyLands ==
    player.isJumping ~> (~player.isJumping /\ player.velocityY = 0)

\* C9 witness: an update has landed a jumping player.
C9_Witness ==
    /\ lastOp = "update" /\ lastDt > 0 /\ prev.isJumping
    /\ ~player.isJumping /\ player.velocityY = 0

\* r lies inside the box spanned by p's position and target size
Inside(r, p) ==
    /\ p.posX <= r.x /\ r.x + r.w <= p.posX + p.targetSize.x
    /\ p.posY <= r.y /\ r.y + r.h <= p.posY + p.targetSize.y

\* C10: the Head, Body and Tail rectangles lie inside
\* [x, x + width] x [y, y + height] of the player's position and target size.
C10_RegionsInside ==
    /\ Inside(player.headCollisionBox, player)
    /\ Inside(player.bodyCollisionBox, player)
    /\ Inside(player.tailCollisionBox, player)

\* C10 witness: the regions of a fast-falling player after an update.
C10_Witness ==
    /\ lastOp = "update" /\ lastDt > 0 /\ player.isFastFalling
    /\ Inside(player.headCollisionBox, player)

\* Fairness: the frame clock keeps ticking with a positive dt.
PlayerLiveSpec ==
    PlayerSpec /\ WF_vars(\E deltaTime \in PlayerDts \ {0} : PUpdate(deltaTime))

\* the x- and y-projections of shapes a and b overlap with positive length
ProjectionsOverlap(a, b) ==
    /\ Max(a.x, b.x) < Min(a.x + a.w, b.x + b.w)
    /\ Max(a.y, b.y) < Min(a.y + a.h, b.y + b.h)

\* C11: checkRectangleCollision(a, b) is true exactly when the x-projections
\* and the y-projections of the two rectangles overlap with positive length;
\* so rectangles that only touch, and rectangles of zero width or height,
\* do not collide.
C11_PositiveOverlapOnly ==
    Returned("checkRectangleCollision")
        => probe.result = ProjectionsOverlap(probe.args[1], probe.args[2])

\* C12: checkRectangleCollision(a, b) equals checkRectangleCollision(b, a).
C12_Symmetric ==
    Returned("checkRectangleCollision")
        => probe.result = checkRectangleCollision(probe.args[2], probe.args[1])

\* C12 witness: two different shapes were found to collide.
C12_Witness ==
    /\ Returned("checkRectangleCollision") /\ probe.result = TRUE
    /\ probe.args[1].x < probe.args[2].x /\ probe.args[1].w # probe.args[2].w

\* the number of regions hit in a CollisionInfo
HitCount(info) ==
    (IF info.headHit THEN 1 ELSE 0) + (IF info.bodyHit THEN 1 ELSE 0)
        + (IF info.tailHit THEN 1 ELSE 0)

\* C13: checkPlayerSingleObstacleTriple tests Head, Body and Tail each
\* against the obstacle rectangle; no hit gives NO_COLLISION and hasCollision
\* false, one hit gives that region's type, two or three hits give
\* MULTIPLE_COLLISION; hasCollision is true exactly when a flag is true, and
\* LEGACY_COLLISION is never returned.
C13_Classification ==
    Returned("checkPlayerSingleObstacleTriple") =>
        LET p == probe.args[1]
            box == probe.args[2].boundingBox
            info == probe.result
        IN /\ info.headHit = checkRectangleCollision(p.headCollisionBox, box)
           /\ info.bodyHit = checkRectangleCollision(p.bodyCollisionBox, box)
           /\ info.tailHit = checkRectangleCollision(p.tailCollisionBox, box)
           /\ info.hasCollision = (HitCount(info) >= 1)
           /\ HitCount(info) = 0 => info.collisionType = "NO_COLLISION"
           /\ HitCount(info) = 1 =>
                 info.collisionType =
                     IF info.headHit THEN "HEAD_COLLISION"
                     ELSE IF info.bodyHit THEN "BODY_COLLISION"
                     ELSE "TAIL_COLLISION"
           /\ HitCount(info) >= 2 => info.collisionType = "MULTIPLE_COLLISION"
           /\ info.collisionType # "LEGACY_COLLISION"

\* C13 witness: the obstacle hit the Tail region alone.
C13_Witness ==
    /\ Returned("checkPlayerSingleObstacleTriple")
    /\ probe.result.tailHit /\ ~probe.result.headHit /\ ~probe.result.bodyHit
    /\ probe.result.collisionType = "TAIL_COLLISION"

RightEdge(o) == o.posX + o.currentSize.x

\* C15: at the end of every ObstacleManager::update the live obstacles are
\* exactly the obstacles of the list before the removal whose right edge is
\* at or right of -50, in the order they had there.
C15_Culling ==
    Returned("update") =>
        /\ \A i \in 1..Len(obstacleManager.obstacles) :
               RightEdge(obstacleManager.obstacles[i]) >= -50000
        /\ obstacleManager.obstacles
               = SelectSeq(probe.result.beforeRemoval,
                           LAMBDA o : RightEdge(o) >= -50000)

\* C15 witness: an update removed an obstacle and kept two others.
C15_Witness ==
    /\ Returned("update")
    /\ Len(obstacleManager.obstacles) < Len(probe.result.beforeRemoval)
    /\ Len(obstacleManager.obstacles) >= 2

\* C16 as stated: for every pair of neighbours in the live obstacle list the
\* earlier element has an x greater than or equal to that of the later one.
C16_Original ==
    Returned("update") =>
        \A i \in 1..(Len(obstacleManager.obstacles) - 1) :
            obstacleManager.obstacles[i].posX
                >= obstacleManager.obstacles[i + 1].posX

\* C16 amended: the live obstacle list is ordered by spawn time, oldest
\* first, and therefore by ascending x: for every pair of neighbours the
\* earlier element has an x less than or equal to that of the later one.
C16_SpawnOrder ==
    Returned("update") =>
        /\ Len(probe.result.spawnTimes) = Len(obstacleManager.obstacles)
        /\ \A i \in 1..(Len(obstacleManager.obstacles) - 1) :
              /\ probe.result.spawnTimes[i] <= probe.result.spawnTimes[i + 1]
              /\ obstacleManager.obstacles[i].posX
                    <= obstacleManager.obstacles[i + 1].posX

\* C16 witness: two patterns are live, the older one of several obstacles,
\* and x ascends strictly along the list.
C16_Witness ==
    /\ Returned("update") /\ Len(obstacleManager.obstacles) >= 3
    /\ probe.result.spawnTimes[1] = probe.result.spawnTimes[2]
    /\ probe.result.spawnTimes[2] < probe.result.spawnTimes[3]
    /\ obstacleManager.obstacles[1].posX < obstacleManager.obstacles[2].posX
    /\ obstacleManager.obstacles[2].posX < obstacleManager.obstacles[3].posX

\* C17: the obstacles created by one spawnPattern call have pairwise
\* disjoint x-extents [x, x + width].
C17_NoOverlapInPattern ==
    Returned("spawnPattern") =>
        LET first == Len(probe.args[3].obstacles) + 1
        IN \A i \in first..Len(probe.result) :
             \A j \in first..Len(probe.result) :
               i < j => \/ RightEdge(probe.result[i]) < probe.result[j].posX
                        \/ RightEdge(probe.result[j]) < probe.result[i].posX

C19_SpawnedUnlocked ==
    (Returned("update") /\ probe.result.spawned # "none") =>
        patternDefinitions[probe.result.spawned].minGameTime <= probe.args[2]

\* C19 witness: the guard refused the drawn pattern and a fallback spawned.
C19_Witness ==
    /\ Returned("update") /\ probe.result.spawned # "none"
    /\ probe.result.spawned # probe.result.drawn
    /\ probe.result.spawned = obstacleManager.lastPattern

\* true for a pattern of difficulty > 0.6
Hard(pattern) == patternDefinitions[pattern].patternDifficulty > 600

\* C20: no three selections in a row have difficulty > 0.6; the
\* consecutive-hard counter never exceeds 2 and is 0 after every selection
\* of difficulty <= 0.6.
C20_NoThreeHard ==
    (probe.fn \in {"ObstacleManager", "update", "clear"}) =>
        /\ obstacleManager.consecutiveHardPatterns <= 2
        /\ (probe.fn = "update" /\ probe.result.spawned # "none"
               /\ ~Hard(probe.result.spawned))
              => obstacleManager.consecutiveHardPatterns = 0
        /\ Len(probe.result.recent) = 3
              => ~(\A i \in 1..3 : Hard(probe.result.recent[i]))

\* C20 witness: after two hard selections the guard refused a third hard
\* pattern and an easier one was selected.
C20_Witness ==
    /\ Returned("update") /\ Len(probe.result.recent) = 3
    /\ Hard(probe.result.recent[1]) /\ Hard(probe.result.recent[2])
    /\ probe.result.spawned = probe.result.recent[3]
    /\ Hard(probe.result.drawn) /\ ~Hard(probe.result.spawned)

\* C21 as stated: a pattern of difficulty > 0.8 is spawned only when more
\* than 4.0 seconds of deltaTime have accumulated since a pattern of
\* difficulty > 0.6 was last spawned or the game (re)started, that is, only
\* when the cooldown timer exceeds 4.0.
C21_Original ==
    (Returned("update") /\ probe.result.spawned # "none"
       /\ patternDefinitions[probe.result.spawned].patternDifficulty > 800)
        => probe.result.sinceHardAtSpawn > 4000

\* C21 amended: the cooldown timer is the deltaTime accumulated since the
\* manager was built or cleared or last spawned a pattern of difficulty >
\* 0.6, and a pattern of difficulty > 0.8 is spawned only when that timer has
\* reached 4.0 seconds (4.0 itself included).
C21_Cooldown ==
    (probe.fn \in {"ObstacleManager", "update", "clear"}) =>
        /\ obstacleManager.patternCooldownTimer = probe.result.sinceHard
        /\ (probe.result.spawned # "none"
               /\ patternDefinitions[probe.result.spawned].patternDifficulty
                     > 800)
              => probe.result.sinceHardAtSpawn >= 4000

\* C21 witness: a pattern of difficulty > 0.8 spawned when exactly 4.0 seconds
\* had accumulated since the last hard pattern.
C21_Witness ==
    /\ Returned("update") /\ probe.result.spawned # "none"
    /\ patternDefinitions[probe.result.spawned].patternDifficulty > 800
    /\ probe.result.sinceHardAtSpawn = 4000
    /\ obstacleManager.patternCooldownTimer = 0

\* C22: spawnPattern(p) appends exactly one obstacle per (type, offset) pair
\* of p, in the pattern's order, to the end of the live list; each new
\* obstacle has the pattern's type, an x in [800 + offset - 15, 800 + offset
\* + 15] and the manager's current obstacle speed; the obstacles already in
\* the list are not changed.
C22_SpawnPattern ==
    Returned("spawnPattern") =>
        LET def == patternDefinitions[probe.args[1]]
            old == probe.args[3].obstacles
            n   == Len(def.obstacleTypes)
        IN /\ Len(def.relativePositions) = n
           /\ Len(probe.result) = Len(old) + n
           /\ SubSeq(probe.result, 1, Len(old)) = old
           /\ \A i \in 1..n :
                 LET o == probe.result[Len(old) + i]
                 IN /\ o.obstacleType = def.obstacleTypes[i]
                    /\ o.posX >= 800000 + def.relativePositions[i] - 15000
                    /\ o.posX <= 800000 + def.relativePositions[i] + 15000
                    /\ o.velocityX = probe.args[3].obstacleSpeed

\* C22 witness: a three-obstacle pattern spawned on a manager that already
\* held obstacles and moves them faster than the initial speed.
C22_Witness ==
    /\ Returned("spawnPattern")
    /\ Len(probe.args[3].obstacles) = 2
    /\ Len(probe.result) = 5
    /\ probe.result[5].velocityX = 300000
    /\ probe.result[3].posX < probe.result[4].posX

\* C23: a restart (GameOver to Playing) leaves elapsed time 0, score 0, an
\* empty obstacle list with spawn timer 0, spawn interval 2.0, speed 200,
\* difficulty 0, consecutive-hard counter 0 and cooldown timer 0, and a player
\* that is Running at the ground line with zero velocity, default size and no
\* duck-held flag; a collision query right after it reports no collision.
C23_RestartResets ==
    lastOp = "restart" =>
        /\ currentState = "PLAYING" /\ previousState = "GAME_OVER"
        /\ gameTime = 0 /\ currentScore = 0
        /\ obstacleManager.obstacles = <<>>
        /\ obstacleManager.spawnTimer = 0
        /\ obstacleManager.obstacleInterval = 2000
        /\ obstacleManager.obstacleSpeed = 200000
        /\ obstacleManager.currentDifficulty = 0
        /\ obstacleManager.consecutiveHardPatterns = 0
        /\ obstacleManager.patternCooldownTimer = 0
        /\ ~player.isJumping /\ ~player.isDucking /\ ~player.isFastFalling
        /\ ~player.duckPressed
        /\ player.posX = 100000 /\ player.posY = 400000
        /\ player.velocityY = 0
        /\ player.targetSize = [x |-> 60000, y |-> 64500]
        /\ player = NewPlayer(PLAYER_START_X, GROUND_Y)
        /\ ~checkCollisions(Game)
        /\ ~checkPlayerObstacleCollisionTriple(player, obstacleManager)

\* C23 witness: a restart after a game that scored.
C23_Witness ==
    /\ lastOp = "restart" /\ highScore > 0 /\ currentScore = 0
    /\ currentState = "PLAYING"

\* C29: startDucking() on a player that is still ascending, in particular
\* right after jump() with no update in between, cuts the jump: the player
\* is left with no upward velocity and fast-falling.
C29_JumpCut ==
    (lastOp = "startDucking" /\ prev.isJumping /\ prev.velocityY < 0) =>
        /\ player.velocityY >= 0
        /\ player.isFastFalling /\ player.isJumping /\ player.duckPressed
        /\ player.posY = prev.posY

\* C29 witness: startDucking() right after jump(), the launch velocity
\* still untouched.
C29_Witness ==
    /\ lastOp = "startDucking" /\ prev.isJumping /\ ~prev.isFastFalling
    /\ prev.velocityY = JUMP_STRENGTH /\ prev.posY = GROUND_Y
    /\ player.velocityY >= 0 /\ player.isFastFalling

\* the detail fields of a collision record
Detail(info) == <<info.collisionPoint, info.normal, info.penetrationDepth>>

\* C30: the detail fields of checkPlayerSingleObstacleTriple are those of
\* getDetailedCollision for one region, Body before Head before Tail among
\* the regions hit, and stay at their zero defaults when nothing is hit.
C30_DetailPriority ==
    Returned("checkPlayerSingleObstacleTriple") =>
        LET p == probe.args[1]
            box == probe.args[2].boundingBox
            info == probe.result
        IN Detail(info) =
              IF info.bodyHit
              THEN Detail(getDetailedCollision(p.bodyCollisionBox, box))
              ELSE IF info.headHit
              THEN Detail(getDetailedCollision(p.headCollisionBox, box))
              ELSE IF info.tailHit
              THEN Detail(getDetailedCollision(p.tailCollisionBox, box))
              ELSE <<[x |-> 0, y |-> 0], [x |-> 0, y |-> 0], 0>>

\* C30 witness: head and body are both hit and their details differ; the
\* record carries those of the body.
C30_Witness ==
    /\ Returned("checkPlayerSingleObstacleTriple")
    /\ probe.result.headHit /\ probe.result.bodyHit
    /\ Detail(getDetailedCollision(probe.args[1].headCollisionBox,
                                   probe.args[2].boundingBox))
         # Detail(getDetailedCollision(probe.args[1].bodyCollisionBox,
                                      probe.args[2].boundingBox))
    /\ Detail(probe.result)
         = Detail(getDetailedCollision(probe.args[1].bodyCollisionBox,
                                      probe.args[2].boundingBox))

\* C27: at the end of every update(dt), dt >= 0, in which the player is
\* still fast-falling, the downward velocity is at most 800.
C27_TerminalVelocity ==
    (lastOp = "update" /\ lastDt >= 0 /\ player.isFastFalling) =>
        player.velocityY <= 800000

\* C27 witness: an update that left the player fast-falling and faster than
\* the speed startDucking gave it.
C27_Witness ==
    /\ lastOp = "update" /\ lastDt > 0 /\ player.isFastFalling
    /\ prev.isFastFalling /\ prev.velocityY >= 200000
    /\ player.velocityY > prev.velocityY

\* C28: an update(dt) on a player that is Jumping or Ducking at the end of
\* the physics step leaves the animation timer and the frame toggle
\* unchanged.
C28_AnimationOnlyRunning ==
    (lastOp = "update" /\ (player.isJumping \/ player.isDucking)) =>
        /\ player.animationTimer = prev.animationTimer
        /\ player.isRunningAnimationFrame1 = prev.isRunningAnimationFrame1

\* C25: the driver's state is always Playing or GameOver; no sequence of
\* frames and input events makes it Menu, Paused or Settings.
C25_PlayingOrGameOver ==
    /\ currentState \in {"PLAYING", "GAME_OVER"}
    /\ previousState \in {"PLAYING", "GAME_OVER"}
    /\ currentState \notin {"MENU", "PAUSED", "SETTINGS"}

\* C25 witness: the game is playing again after a game over that the escape
\* key or a collision caused and a restart.
C25_Witness ==
    /\ currentState = "PLAYING" /\ previousState = "GAME_OVER"
    /\ lastOp \in {"jump", "startDucking", "update"}

\* C24: at the end of every Playing frame (dt >= 0) the score is
\* floor(elapsedTime * 10 + (currentObstacleSpeed / 200 - 1)) of the elapsed
\* time and obstacle speed after the frame, whatever the rest of the game.
C24_Score ==
    (Returned("updatePlayingState") /\ probe.args[2] >= 0) =>
        LET g == probe.result
            x == g.gameTime * 2000 + g.obstacleManager.obstacleSpeed - 200000
        IN /\ g.gameTime = probe.args[1].gameTime + probe.args[2]
           /\ 200000 * g.currentScore <= x
           /\ x < 200000 * (g.currentScore + 1)

\* C24 witness: a frame at whose end the speed term lifts the score above
\* floor(elapsedTime * 10).
C24_Witness ==
    /\ Returned("updatePlayingState") /\ probe.args[2] >= 0
    /\ probe.result.gameTime = 19960
    /\ probe.result.currentScore = 200
    /\ probe.result.obstacleManager.obstacleSpeed = 299800

\* C26: after a frame with dt < 0 the elapsed game time has not decreased, no
\* obstacle has moved to the right, the spawn timer has not decreased and the
\* airborne player's position is not integrated backwards.
C26_NegativeDtRejected ==
    (Returned("updatePlayingState") /\ probe.args[2] < 0) =>
        LET before == probe.args[1]
            after  == probe.result
        IN /\ after.gameTime >= before.gameTime
           /\ after.obstacleManager.spawnTimer
                 >= before.obstacleManager.spawnTimer
           /\ \A i \in 1..Len(before.obstacleManager.obstacles) :
                 i <= Len(after.obstacleManager.obstacles)
                   => after.obstacleManager.obstacles[i].posX
                        <= before.obstacleManager.obstacles[i].posX
           /\ before.player.isJumping
                 => after.player.posY = update(before.player, 0).posY

\* C35: the duck-held flag is true exactly when the player is Ducking or
\* FastFalling.
C35_DuckPressedIffDucking ==
    player.duckPressed <=> (player.isDucking \/ player.isFastFalling)

\* C35 witness: a fast-falling player landed with the key held and ducks.
C35_Witness ==
    /\ lastOp = "update" /\ prev.isFastFalling /\ prev.duckPressed
    /\ ~player.isJumping /\ player.isDucking /\ player.duckPressed

\* C36: the target size is the duck profile (82.5 x 39.75) exactly when the
\* duck-held flag is true and the default size (60 x 64.5) otherwise.
C36_SizeFollowsDuckKey ==
    player.targetSize = IF player.duckPressed
                        THEN [x |-> 82500, y |-> 39750]
                        ELSE [x |-> 60000, y |-> 64500]

\* C36 witness: the key was released during a fast fall and the airborne
\* player has the default size again.
C36_Witness ==
    /\ lastOp = "stopDucking" /\ prev.isFastFalling
    /\ prev.targetSize = [x |-> 82500, y |-> 39750]
    /\ player.isJumping /\ player.targetSize = [x |-> 60000, y |-> 64500]

\* C37: the player is never below the ground: y is 400 when Running, 400 +
\* 64.5 - 39.75 when Ducking and at most 400 when Jumping, and a grounded
\* player has velocity 0.
C37_NeverBelowGround ==
    /\ (~player.isJumping /\ ~player.isDucking) => player.posY = 400000
    /\ (~player.isJumping /\ player.isDucking) => player.posY = 424750
    /\ player.isJumping => player.posY <= 400000
    /\ ~player.isJumping => player.velocityY = 0

\* C37 witness: a single long update took a rising player to the ground.
C37_Witness ==
    /\ lastOp = "update" /\ lastDt = 500
    /\ prev.isJumping /\ prev.posY < 400000 /\ prev.velocityY < 0
    /\ ~player.isJumping /\ player.posY = 400000 /\ player.velocityY = 0

\* C38: startDucking() and stopDucking() are idempotent: after either one, a
\* second call of the same operation changes nothing of the player.
C38_Idempotent ==
    /\ lastOp = "startDucking" => startDucking(player) = player
    /\ lastOp = "stopDucking" => stopDucking(player) = player

\* C38 witness: startDucking() was called on a player that was already
\* fast-falling with the key held, and left it as it was.
C38_Witness ==
    /\ lastOp = "startDucking" /\ prev.isFastFalling /\ prev.duckPressed
    /\ prev.velocityY = JUMP_CUT_VELOCITY /\ player = prev

\* C39: while the driver is in GameOver, frames and jump/duck/release events
\* change nothing: elapsed time, score, player and obstacle manager stay as
\* they were at the transition, and only the restart key leaves GameOver.
C39_GameOverFrozen ==
    [][currentState = "GAME_OVER" =>
          \/ lastOp' = "restart" /\ currentState' = "PLAYING"
          \/ /\ lastOp' \in {"idle", "ignored"}
             /\ currentState' = "GAME_OVER"
             /\ UNCHANGED <<player, obstacleManager, gameTime, currentScore,
                            highScore, previousState>>]_vars

\* C39 witness: a frame ran in GameOver with the player stopped in mid-air
\* and obstacles on the screen.
C39_Witness ==
    /\ currentState = "GAME_OVER" /\ lastOp = "idle"
    /\ player.isJumping /\ player.velocityY # 0
    /\ obstacleManager.obstacles # <<>>

\* C40: the high score never decreases and is not cleared by a restart; in
\* GameOver it is at least the current score; it changes only on a transition
\* into GameOver.
C40_HighScore ==
    /\ [](currentState = "GAME_OVER" => highScore >= currentScore)
    /\ [][/\ highScore' >= highScore
          /\ highScore' # highScore
                => (currentState = "PLAYING" /\ currentState' = "GAME_OVER"
                      /\ highScore' = currentScore')]_vars

\* C40 witness: a later game ended with a lower score than the high score
\* kept from an earlier game.
C40_Witness ==
    /\ currentState = "GAME_OVER" /\ previousState = "PLAYING"
    /\ highScore > currentScore /\ currentScore > 0

\* C31: in every ObstacleManager::update(dt, t) each obstacle that was live
\* before the call is moved left by (speed for time t) * dt, the obstacles
\* spawned in the call are not moved in it, and at the end every live
\* obstacle carries the manager's current obstacle speed.
C31_UniformSpeed ==
    Returned("update") =>
        LET b  == probe.args[1]
            a  == probe.result
            dt == probe.args[2]
            t  == probe.args[3]
            n  == Len(b.obstacles)
            def == patternDefinitions[a.lastPattern]
        IN /\ a.obstacleSpeed = Min(400000, 200000 + 5 * t)
           /\ Len(a.obstacles) >= n
           /\ \A i \in 1..n :
                 Abs(Scale * (b.obstacles[i].posX - a.obstacles[i].posX)
                       - a.obstacleSpeed * dt) <= Scale
           /\ \A k \in 1..(Len(a.obstacles) - n) :
                 a.obstacles[n + k].posX
                   \in {800000 + def.relativePositions[k] + j[k] :
                           j \in ManagerJitterDraws}
           /\ \A i \in 1..Len(a.obstacles) :
                 a.obstacles[i].velocityX = a.obstacleSpeed

\* C31 witness: an update that raised the speed, moved the live obstacle with
\* the new speed and spawned a pattern.
C31_Witness ==
    /\ Returned("update") /\ probe.args[2] > 0
    /\ Len(probe.result.obstacles) > Len(probe.args[1].obstacles)
    /\ probe.result.obstacleSpeed > probe.args[1].obstacleSpeed
    /\ probe.result.obstacles[1].posX < probe.args[1].obstacles[1].posX

\* C32: update(dt, t) spawns exactly when the spawn timer plus dt has reached
\* the spawn interval for time t; then exactly one pattern is spawned,
\* however large dt is, and the timer is reset to a value in [-0.1, 0.1];
\* otherwise no obstacle is added and the timer keeps its accumulated value.
C32_SpawnTimer ==
    Returned("update") =>
        LET b  == probe.args[1]
            a  == probe.result
            dt == probe.args[2]
            t  == probe.args[3]
            n  == Len(b.obstacles)
        IN /\ a.obstacleInterval = Max(800, 2000 - (t * 30) \div Scale)
           /\ IF b.spawnTimer + dt >= a.obstacleInterval
              THEN /\ Len(a.obstacles)
                        = n + Len(patternDefinitions[a.lastPattern].obstacleTypes)
                   /\ a.spawnTimer >= -100 /\ a.spawnTimer <= 100
              ELSE /\ Len(a.obstacles) = n
                   /\ a.spawnTimer = b.spawnTimer + dt
                   /\ a.lastPattern = b.lastPattern

\* C32 witness: the timer passed twice the interval in one update, a single
\* pattern of two obstacles was spawned and the timer restarted below zero.
C32_Witness ==
    /\ Returned("update")
    /\ probe.args[1].spawnTimer + probe.args[2]
         >= 2 * probe.result.obstacleInterval
    /\ Len(probe.result.obstacles) = 3
    /\ probe.result.spawnTimer = -100

\* The weight 0.3 + 0.7 * (1 - |pattern difficulty - current difficulty|) in
\* thousandths; the times of WeightTimes make it a whole number.
MatchWeight(om, pattern) ==
    300 + (700 * (1000 - Abs(patternDefinitions[pattern].patternDifficulty
                               - om.currentDifficulty))) \div Scale

\* C33 as stated: the selection weight of an unlocked pattern is exactly
\* 0.3 + 0.7 * (1 - |pattern difficulty - current difficulty|) for every
\* state of the consecutive-hard counter and of the cooldown timer.
C33_Original ==
    Returned("getPatternWeight") =>
        probe.result
          = MatchWeight(probe.args[1],
                        probe.args[1].availablePatterns[probe.args[2]])

\* C33: the selection weight of an unlocked pattern is
\* 0.3 + 0.7 * (1 - |pattern difficulty - current difficulty|), multiplied by
\* 0.1 when the pattern has difficulty above 0.6 and two hard patterns were
\* spawned in a row, or has difficulty above 0.8 and the cooldown timer is
\* below 4.0.
C33_Weight ==
    Returned("getPatternWeight") =>
        LET om == probe.args[1]
            pattern == om.availablePatterns[probe.args[2]]
            pd == patternDefinitions[pattern].patternDifficulty
            w  == MatchWeight(om, pattern)
        IN IF \/ pd > 600 /\ om.consecutiveHardPatterns >= 2
              \/ pd > 800 /\ om.patternCooldownTimer < 4000
           THEN 10 * probe.result <= w /\ w < 10 * (probe.result + 1)
           ELSE probe.result = w

\* C33 witness: the weight of TRIPLE_CLUSTER at difficulty 0.84 one second
\* after a hard pattern is a tenth of 0.958.
C33_Witness ==
    /\ Returned("getPatternWeight")
    /\ probe.args[1].availablePatterns[probe.args[2]] = "TRIPLE_CLUSTER"
    /\ probe.args[1].currentDifficulty = 840
    /\ probe.args[1].patternCooldownTimer = 1000
    /\ probe.args[1].consecutiveHardPatterns = 0
    /\ probe.result = 95

====
